---------------------------- MODULE Spec2Model ----------------------------
(***************************************************************************)
(* Interview-analysis backend (src/backend): the video prober, the audio   *)
(* extractor, validation with bounded retry, and the analysis orchestrator *)
(* as one state machine over a small file system.                          *)
(*                                                                         *)
(* Conventions.  A Python dict is a record with the same keys; a missing   *)
(* key is a missing field.  A str is a tuple of one-character strings, so  *)
(* that suffix extraction, lower() and substring search are computed.      *)
(* Floats are scaled integers: durations in hundredths of a second (the    *)
(* code rounds them to two decimals), file sizes in bytes.  File-system    *)
(* calls (mkdtemp, remove, rmdir) are taken to succeed; the outcomes of    *)
(* the media and recognition libraries are nondeterministic.               *)
(***************************************************************************)
EXTENDS Integers, Sequences, FiniteSets, TLC

(***************************************************************************)
(* Bounds of the model.                                                    *)
(***************************************************************************)
\* largest max_retries a caller of safe_video_processing passes
MaxRetries == 2

(***************************************************************************)
(* Strings.                                                                *)
(***************************************************************************)
UpperToLower ==
  [A |-> "a", B |-> "b", C |-> "c", D |-> "d", E |-> "e", F |-> "f", G |-> "g",
   H |-> "h", I |-> "i", J |-> "j", K |-> "k", L |-> "l", M |-> "m", N |-> "n",
   O |-> "o", P |-> "p", Q |-> "q", R |-> "r", S |-> "s", T |-> "t", U |-> "u",
   V |-> "v", W |-> "w", X |-> "x", Y |-> "y", Z |-> "z"]

\* str.lower(), one character
LowerChar(c) == IF c \in DOMAIN UpperToLower THEN UpperToLower[c] ELSE c

\* str.lower()
Lower(s) == [i \in 1..Len(s) |-> LowerChar(s[i])]

\* str.rfind(c) + 1: the last position of c in s, 0 when absent
LastIndexOf(s, c) ==
  LET hits == {i \in 1..Len(s) : s[i] = c}
  IN IF hits = {} THEN 0 ELSE CHOOSE i \in hits : \A j \in hits : j <= i

\* os.path.basename
BaseName(p) == SubSeq(p, LastIndexOf(p, "/") + 1, Len(p))

\* the path without the slashes that end it, as pathlib parses it
RECURSIVE StripSlashes(_)
StripSlashes(p) ==
  IF Len(p) > 1 /\ p[Len(p)] = "/" THEN StripSlashes(SubSeq(p, 1, Len(p) - 1))
  ELSE p

\* Path(p).name
PathName(p) == BaseName(StripSlashes(p))

\* Path(p).suffix: from the last dot of the name, unless that dot leads or
\* ends the name
PathSuffix(p) ==
  LET name == PathName(p)
      i == LastIndexOf(name, ".")
  IN IF 1 < i /\ i < Len(name) THEN SubSeq(name, i, Len(name)) ELSE <<>>

\* str.endswith
EndsWith(s, t) ==
  Len(t) <= Len(s) /\ SubSeq(s, Len(s) - Len(t) + 1, Len(s)) = t

(***************************************************************************)
(* video_utils.py                                                          *)
(***************************************************************************)
SUPPORTED_VIDEO_FORMATS ==
  { <<".","m","p","4">>, <<".","a","v","i">>, <<".","m","o","v">>,
    <<".","m","k","v">>, <<".","w","e","b","m">>, <<".","f","l","v">>,
    <<".","w","m","v">>, <<".","m","4","v">> }

\* a variant of is_video_file that compares the suffix as written
is_video_file_CaseSensitive(file_path) ==
  PathSuffix(file_path) \in SUPPORTED_VIDEO_FORMATS

is_video_file(file_path) == Lower(PathSuffix(file_path)) \in SUPPORTED_VIDEO_FORMATS

\* round(a / b) to the nearest integer, ties to even (Python's round); b > 0
RoundDiv(a, b) ==
  LET q == a \div b
      r == a % b
  IN IF 2 * r < b THEN q
     ELSE IF 2 * r > b THEN q + 1
     ELSE IF q % 2 = 0 THEN q ELSE q + 1

\* round(frame_count / fps, 2) if fps > 0 else 0, in hundredths of a second
DurationCs(frame_count, fps) ==
  IF fps > 0 THEN RoundDiv(100 * frame_count, fps) ELSE 0

(***************************************************************************)
(* IEEE-754 double arithmetic of the overall-score expression              *)
(* (interview_utils.py, analyze_interview), exact, in small integers.      *)
(*                                                                         *)
(* A double x of that computation is the pair <<n, e>> with                *)
(*     x = n/20 + e * U,   U = 2^-56 / 20,                                 *)
(* n/20 the decimal value the source text suggests and e * U how far the   *)
(* binary value is from it.  For 2^k <= x < 2^(k+1) the doubles are the    *)
(* multiples of 2^(k-52) = G * U with G = 5 * 2^(k+6), and n/20 sits       *)
(* n * 2^56 units from 0, which modulo G is 2^(k+6) * (n * 2^(50-k) mod 5).*)
(* Rounding to nearest, ties to even, is therefore decided on numbers      *)
(* below 2^15.                                                             *)
(***************************************************************************)
\* the literals 0.3, 0.25 and 0.15 as doubles
D_0_3 == <<6, -16>>
D_0_25 == <<5, 0>>
D_0_15 == <<3, -8>>

\* 2^m mod 5
Pow2Mod5(m) == <<1, 2, 4, 3>>[(m % 4) + 1]

\* n/20 >= 2^k
AtLeastPow2(n, k) == IF k >= 0 THEN n >= 20 * 2^k ELSE n * 2^(0 - k) >= 20

\* floor(log2(n/20 + e*U)), for n > 0
FExponent(n, e) ==
  LET k == CHOOSE j \in -5..7 : AtLeastPow2(n, j) /\ ~AtLeastPow2(n, j + 1)
      isPow2 == IF k >= 0 THEN n = 20 * 2^k ELSE n * 2^(0 - k) = 20
  IN IF isPow2 /\ e < 0 THEN k - 1 ELSE k

\* the double nearest to n/20 + e*U (round to nearest, ties to even)
FRound(n, e) ==
  IF n = 0 THEN <<0, 0>>
  ELSE LET k == FExponent(n, e)
           G == 5 * 2^(k + 6)
           r == 2^(k + 6) * (((n % 5) * Pow2Mod5(50 - k)) % 5)
           p == (r + e) % G
           r2 == 2^(k + 7) * (((n % 5) * Pow2Mod5(49 - k)) % 5)
           downEven == (r2 + e - p) % (2 * G) = 0
       IN IF 2 * p < G THEN <<n, e - p>>
          ELSE IF 2 * p > G THEN <<n, e + G - p>>
          ELSE IF downEven THEN <<n, e - p>> ELSE <<n, e + G - p>>

\* int * float
FMul(c, x) == FRound(c * x[1], c * x[2])

\* float + float
FAdd(x, y) == FRound(x[1] + y[1], x[2] + y[2])

\* int(float), for a float >= 0: truncation
FTrunc(x) ==
  IF x[1] % 20 = 0 /\ x[2] < 0 THEN (x[1] \div 20) - 1 ELSE x[1] \div 20

\* the weighted sum in exact arithmetic, in hundredths
ExactHundredths(confidence, clarity, hesitation, content) ==
  30 * confidence + 25 * clarity + 15 * (100 - hesitation) + 30 * content

\* a variant of overall_score that rounds the exact sum to the nearest
\* integer instead of truncating the double
OverallScoreRounded(confidence, clarity, hesitation, content) ==
  RoundDiv(ExactHundredths(confidence, clarity, hesitation, content), 100)

\* the weighted sum of analyze_interview, in its evaluation order
WeightedSum(confidence, clarity, hesitation, content) ==
  FAdd(FAdd(FAdd(FMul(confidence, D_0_3), FMul(clarity, D_0_25)),
            FMul(100 - hesitation, D_0_15)),
       FMul(content, D_0_3))

\* overall_score = int(...)
OverallScore(confidence, clarity, hesitation, content) ==
  FTrunc(WeightedSum(confidence, clarity, hesitation, content))

(***************************************************************************)
(* interview_utils.py: texts and keyword search                            *)
(***************************************************************************)
\* the characters of each word of the keyword lists and texts below
Spell ==
  "Could" :> <<"C","o","u","l","d">> @@
  "Error" :> <<"E","r","r","o","r">> @@
  "I" :> <<"I">> @@
  "Nervous" :> <<"N","e","r","v","o","u","s">> @@
  "Python" :> <<"P","y","t","h","o","n">> @@
  "SQL" :> <<"S","Q","L">> @@
  "Um" :> <<"U","m">> @@
  "abilities" :> <<"a","b","i","l","i","t","i","e","s">> @@
  "about" :> <<"a","b","o","u","t">> @@
  "absolutely" :> <<"a","b","s","o","l","u","t","e","l","y">> @@
  "actually" :> <<"a","c","t","u","a","l","l","y">> @@
  "adaptable" :> <<"a","d","a","p","t","a","b","l","e">> @@
  "ah" :> <<"a","h">> @@
  "ai" :> <<"a","i">> @@
  "am" :> <<"a","m">> @@
  "analytical" :> <<"a","n","a","l","y","t","i","c","a","l">> @@
  "and" :> <<"a","n","d">> @@
  "anxious" :> <<"a","n","x","i","o","u","s">> @@
  "api" :> <<"a","p","i">> @@
  "audio" :> <<"a","u","d","i","o">> @@
  "aws" :> <<"a","w","s">> @@
  "basically" :> <<"b","a","s","i","c","a","l","l","y">> @@
  "believe" :> <<"b","e","l","i","e","v","e">> @@
  "built" :> <<"b","u","i","l","t">> @@
  "capable" :> <<"c","a","p","a","b","l","e">> @@
  "certainly" :> <<"c","e","r","t","a","i","n","l","y">> @@
  "clearly" :> <<"c","l","e","a","r","l","y">> @@
  "collaborative" :> <<"c","o","l","l","a","b","o","r","a","t","i","v","e">> @@
  "committed" :> <<"c","o","m","m","i","t","t","e","d">> @@
  "communication" :> <<"c","o","m","m","u","n","i","c","a","t","i","o","n">> @@
  "complex" :> <<"c","o","m","p","l","e","x">> @@
  "confident" :> <<"c","o","n","f","i","d","e","n","t">> @@
  "confident." :> <<"c","o","n","f","i","d","e","n","t",".">> @@
  "created" :> <<"c","r","e","a","t","e","d">> @@
  "creative" :> <<"c","r","e","a","t","i","v","e">> @@
  "css" :> <<"c","s","s">> @@
  "curious" :> <<"c","u","r","i","o","u","s">> @@
  "data" :> <<"d","a","t","a">> @@
  "dedicated" :> <<"d","e","d","i","c","a","t","e","d">> @@
  "definitely" :> <<"d","e","f","i","n","i","t","e","l","y">> @@
  "deployed" :> <<"d","e","p","l","o","y","e","d">> @@
  "designed" :> <<"d","e","s","i","g","n","e","d">> @@
  "developed" :> <<"d","e","v","e","l","o","p","e","d">> @@
  "difficult" :> <<"d","i","f","f","i","c","u","l","t">> @@
  "discover" :> <<"d","i","s","c","o","v","e","r">> @@
  "docker" :> <<"d","o","c","k","e","r">> @@
  "eager" :> <<"e","a","g","e","r">> @@
  "enjoy" :> <<"e","n","j","o","y">> @@
  "er" :> <<"e","r">> @@
  "excited" :> <<"e","x","c","i","t","e","d">> @@
  "experience" :> <<"e","x","p","e","r","i","e","n","c","e">> @@
  "experienced" :> <<"e","x","p","e","r","i","e","n","c","e","d">> @@
  "explore" :> <<"e","x","p","l","o","r","e">> @@
  "git" :> <<"g","i","t">> @@
  "guess" :> <<"g","u","e","s","s">> @@
  "have" :> <<"h","a","v","e">> @@
  "hello" :> <<"h","e","l","l","o">> @@
  "hesitant" :> <<"h","e","s","i","t","a","n","t">> @@
  "html" :> <<"h","t","m","l">> @@
  "i" :> <<"i">> @@
  "implemented" :> <<"i","m","p","l","e","m","e","n","t","e","d">> @@
  "in" :> <<"i","n">> @@
  "interested" :> <<"i","n","t","e","r","e","s","t","e","d">> @@
  "is" :> <<"i","s">> @@
  "java" :> <<"j","a","v","a">> @@
  "javascript" :> <<"j","a","v","a","s","c","r","i","p","t">> @@
  "john" :> <<"j","o","h","n">> @@
  "know" :> <<"k","n","o","w">> @@
  "kubernetes" :> <<"k","u","b","e","r","n","e","t","e","s">> @@
  "leadership" :> <<"l","e","a","d","e","r","s","h","i","p">> @@
  "learn" :> <<"l","e","a","r","n">> @@
  "learning" :> <<"l","e","a","r","n","i","n","g">> @@
  "led" :> <<"l","e","d">> @@
  "like" :> <<"l","i","k","e">> @@
  "love" :> <<"l","o","v","e">> @@
  "machine" :> <<"m","a","c","h","i","n","e">> @@
  "maintained" :> <<"m","a","i","n","t","a","i","n","e","d">> @@
  "managed" :> <<"m","a","n","a","g","e","d">> @@
  "maybe" :> <<"m","a","y","b","e">> @@
  "microservices" :> <<"m","i","c","r","o","s","e","r","v","i","c","e","s">> @@
  "mongodb" :> <<"m","o","n","g","o","d","b">> @@
  "motivated" :> <<"m","o","t","i","v","a","t","e","d">> @@
  "my" :> <<"m","y">> @@
  "name" :> <<"n","a","m","e">> @@
  "nervous" :> <<"n","e","r","v","o","u","s">> @@
  "node" :> <<"n","o","d","e">> @@
  "not" :> <<"n","o","t">> @@
  "on" :> <<"o","n">> @@
  "opportunity" :> <<"o","p","p","o","r","t","u","n","i","t","y">> @@
  "optimized" :> <<"o","p","t","i","m","i","z","e","d">> @@
  "organized" :> <<"o","r","g","a","n","i","z","e","d">> @@
  "passionate" :> <<"p","a","s","s","i","o","n","a","t","e">> @@
  "perhaps" :> <<"p","e","r","h","a","p","s">> @@
  "postgresql" :> <<"p","o","s","t","g","r","e","s","q","l">> @@
  "probably" :> <<"p","r","o","b","a","b","l","y">> @@
  "problem" :> <<"p","r","o","b","l","e","m">> @@
  "problems" :> <<"p","r","o","b","l","e","m","s">> @@
  "professional" :> <<"p","r","o","f","e","s","s","i","o","n","a","l">> @@
  "proficient" :> <<"p","r","o","f","i","c","i","e","n","t">> @@
  "projects" :> <<"p","r","o","j","e","c","t","s">> @@
  "python" :> <<"p","y","t","h","o","n">> @@
  "react" :> <<"r","e","a","c","t">> @@
  "recognition" :> <<"r","e","c","o","g","n","i","t","i","o","n">> @@
  "redis" :> <<"r","e","d","i","s">> @@
  "reliable" :> <<"r","e","l","i","a","b","l","e">> @@
  "responsible" :> <<"r","e","s","p","o","n","s","i","b","l","e">> @@
  "rest" :> <<"r","e","s","t">> @@
  "science" :> <<"s","c","i","e","n","c","e">> @@
  "service:" :> <<"s","e","r","v","i","c","e",":">> @@
  "several" :> <<"s","e","v","e","r","a","l">> @@
  "skilled" :> <<"s","k","i","l","l","e","d">> @@
  "so" :> <<"s","o">> @@
  "solving" :> <<"s","o","l","v","i","n","g">> @@
  "speech" :> <<"s","p","e","e","c","h">> @@
  "sql" :> <<"s","q","l">> @@
  "struggle" :> <<"s","t","r","u","g","g","l","e">> @@
  "sure" :> <<"s","u","r","e">> @@
  "teams" :> <<"t","e","a","m","s">> @@
  "teamwork" :> <<"t","e","a","m","w","o","r","k">> @@
  "think" :> <<"t","h","i","n","k">> @@
  "this" :> <<"t","h","i","s">> @@
  "thrilled" :> <<"t","h","r","i","l","l","e","d">> @@
  "timeout" :> <<"t","i","m","e","o","u","t">> @@
  "uh" :> <<"u","h">> @@
  "um" :> <<"u","m">> @@
  "uncertain" :> <<"u","n","c","e","r","t","a","i","n">> @@
  "understand" :> <<"u","n","d","e","r","s","t","a","n","d">> @@
  "unsure" :> <<"u","n","s","u","r","e">> @@
  "with" :> <<"w","i","t","h">> @@
  "worked" :> <<"w","o","r","k","e","d">> @@
  "working" :> <<"w","o","r","k","i","n","g">> @@
  "worried" :> <<"w","o","r","r","i","e","d">> @@
  "you" :> <<"y","o","u">>


RECURSIVE Join(_)
\* " ".join(words), each word spelled out
Join(words) ==
  IF Len(words) = 0 THEN <<>>
  ELSE IF Len(words) = 1 THEN Spell[words[1]]
  ELSE Spell[words[1]] \o <<" ">> \o Join(Tail(words))

Text(words) == Join(words)

\* analyze_speech_patterns
filler_words ==
  << Text(<<"um">>), Text(<<"uh">>), Text(<<"er">>), Text(<<"ah">>),
     Text(<<"like">>), Text(<<"you", "know">>), Text(<<"so">>),
     Text(<<"basically">>), Text(<<"actually">>) >>

\* analyze_speech_patterns
confident_phrases ==
  << Text(<<"i", "am", "confident">>), Text(<<"i", "believe">>), Text(<<"i",
     "know">>), Text(<<"definitely">>), Text(<<"absolutely">>),
     Text(<<"certainly">>) >>

\* analyze_speech_patterns
uncertain_phrases ==
  << Text(<<"maybe">>), Text(<<"i", "think">>), Text(<<"probably">>),
     Text(<<"not", "sure">>), Text(<<"i", "guess">>), Text(<<"perhaps">>) >>

\* analyze_sentiment_emotions, without the polarity library
positive_words ==
  << Text(<<"excited">>), Text(<<"confident">>), Text(<<"enjoy">>),
     Text(<<"love">>), Text(<<"passionate">>), Text(<<"skilled">>) >>

\* analyze_sentiment_emotions, without the polarity library
negative_words ==
  << Text(<<"nervous">>), Text(<<"worried">>), Text(<<"difficult">>),
     Text(<<"struggle">>), Text(<<"unsure">>) >>

\* the keys of emotion_keywords, in insertion order
EMOTIONS == <<"enthusiasm", "confidence", "nervousness", "professionalism", "curiosity">>

emotion_keywords ==
  "enthusiasm" :>
    << Text(<<"excited">>), Text(<<"passionate">>), Text(<<"love">>), Text(<<"enjoy">>), Text(<<"thrilled">>), Text(<<"eager">>) >> @@
  "confidence" :>
    << Text(<<"confident">>), Text(<<"capable">>), Text(<<"skilled">>), Text(<<"experienced">>), Text(<<"proficient">>) >> @@
  "nervousness" :>
    << Text(<<"nervous">>), Text(<<"worried">>), Text(<<"anxious">>), Text(<<"uncertain">>), Text(<<"hesitant">>) >> @@
  "professionalism" :>
    << Text(<<"professional">>), Text(<<"responsible">>), Text(<<"reliable">>), Text(<<"dedicated">>), Text(<<"committed">>) >> @@
  "curiosity" :>
    << Text(<<"interested">>), Text(<<"curious">>), Text(<<"learn">>), Text(<<"explore">>), Text(<<"discover">>) >>

\* analyze_content_quality
technical_skills ==
  << Text(<<"python">>), Text(<<"javascript">>), Text(<<"java">>),
     Text(<<"react">>), Text(<<"node">>), Text(<<"sql">>), Text(<<"aws">>),
     Text(<<"docker">>), Text(<<"kubernetes">>), Text(<<"git">>),
     Text(<<"html">>), Text(<<"css">>), Text(<<"mongodb">>),
     Text(<<"postgresql">>), Text(<<"redis">>), Text(<<"machine",
     "learning">>), Text(<<"ai">>), Text(<<"data", "science">>),
     Text(<<"api">>), Text(<<"rest">>), Text(<<"microservices">>) >>

\* analyze_content_quality
soft_skills ==
  << Text(<<"teamwork">>), Text(<<"leadership">>), Text(<<"communication">>),
     Text(<<"problem", "solving">>), Text(<<"creative">>),
     Text(<<"analytical">>), Text(<<"organized">>), Text(<<"adaptable">>),
     Text(<<"collaborative">>), Text(<<"motivated">>) >>

\* analyze_content_quality
experience_indicators ==
  << Text(<<"experience">>), Text(<<"worked">>), Text(<<"developed">>),
     Text(<<"built">>), Text(<<"implemented">>), Text(<<"managed">>),
     Text(<<"led">>), Text(<<"created">>), Text(<<"designed">>),
     Text(<<"optimized">>), Text(<<"maintained">>), Text(<<"deployed">>) >>

\* transcribe_audio, no recognizer
DEMO_TRANSCRIPT ==
  Text(<< "hello", "my", "name", "is", "john", "and", "i", "am", "excited",
          "about", "this", "opportunity", "i", "have", "experience", "in",
          "python", "javascript", "and", "react", "i", "enjoy", "working",
          "with", "teams", "and", "solving", "complex", "problems", "um", "i",
          "have", "worked", "on", "several", "projects", "and", "i", "am",
          "confident", "in", "my", "abilities" >>)

\* transcribe_audio, any other exception
MOCK_TRANSCRIPT ==
  Text(<< "hello", "my", "name", "is", "john", "and", "i", "am", "excited",
          "about", "this", "opportunity", "i", "have", "experience", "in",
          "python", "javascript", "and", "react", "i", "enjoy", "working",
          "with", "teams", "and", "solving", "complex", "problems" >>)

\* transcribe_audio, sr.UnknownValueError
UNKNOWN_VALUE_TEXT ==
  Text(<< "Could", "not", "understand", "audio", "clearly" >>)

\* transcribe_audio, sr.RequestError, the error being 'timeout'
REQUEST_ERROR_TEXT ==
  Text(<< "Error", "with", "speech", "recognition", "service:", "timeout" >>)

\* a text the recognition service returns
Heard1 ==
  Text(<< "Um", "um", "um" >>)

\* a text the recognition service returns
Heard2 ==
  Text(<< "I", "am", "confident.", "I", "know", "Python", "and", "SQL" >>)

\* a text the recognition service returns
Heard3 ==
  Text(<< "maybe", "I", "think", "so" >>)

\* text[i : i + len(kw)] == kw
MatchAt(text, kw, i) ==
  /\ i + Len(kw) - 1 <= Len(text)
  /\ \A j \in 1..Len(kw) : text[i + j - 1] = kw[j]

\* the positions where kw occurs in text
Matches(text, kw) == {i \in 1..Len(text) : MatchAt(text, kw, i)}

RECURSIVE CountFrom(_, _, _)
\* str.count from position i on: the occurrences (at positions m) taken
\* left to right, each starting after the end of the one before
CountFrom(m, len, i) ==
  LET rest == {j \in m : j >= i}
  IN IF rest = {} THEN 0
     ELSE LET first == CHOOSE j \in rest : \A h \in rest : j <= h
          IN 1 + CountFrom(rest, len, first + len)

\* text.count(kw), kw not empty
Count(text, kw) == CountFrom(Matches(text, kw), Len(kw), 1)

\* kw in text
Contains(text, kw) == \E i \in 1..Len(text) : MatchAt(text, kw, i)

RECURSIVE SumSeq(_)
SumSeq(s) == IF Len(s) = 0 THEN 0 ELSE s[1] + SumSeq(Tail(s))

\* sum(text.lower().count(k) for k in keywords)
CountAll(text, keywords) ==
  LET low == Lower(text)
  IN SumSeq([i \in 1..Len(keywords) |-> Count(low, keywords[i])])

\* [k for k in keywords if k in text.lower()]
Mentioned(text, keywords) ==
  LET low == Lower(text)
  IN SelectSeq(keywords, LAMBDA k : Contains(low, k))

\* the number of maximal runs of characters outside seps
CountRuns(text, seps) ==
  Cardinality({i \in 1..Len(text) :
                 /\ text[i] \notin seps
                 /\ (i = 1 \/ text[i - 1] \in seps)})

\* len(text.split())
WordCount(text) == CountRuns(text, {" "})

\* len(text.split('.'))
SentenceCount(text) == Cardinality({i \in 1..Len(text) : text[i] = "."}) + 1

\* sum(len(s.split()) for s in text.split('.'))
SentenceWords(text) == CountRuns(text, {" ", "."})

(***************************************************************************)
(* Float steps of the analyzers, exact.  (a / b) * 100 is two roundings:   *)
(* the quotient to 53 bits, then the product.  Only when 100a/b is a whole *)
(* number H can the result differ from it, by one unit in the last place,  *)
(* and only then does a later int() see the difference.                    *)
(***************************************************************************)
RECURSIVE Pow2Mod(_, _)
\* 2^s mod w
Pow2Mod(s, w) == IF s = 0 THEN 1 % w ELSE (2 * Pow2Mod(s - 1, w)) % w

\* floor(log2(a / b)), a > 0, b > 0
ExponentOf(a, b) ==
  CHOOSE k \in -12..12 :
    IF k >= 0 THEN a >= b * 2^k /\ a < b * 2^(k + 1)
    ELSE a * 2^(0 - k) >= b /\ a * 2^(0 - k - 1) < b

\* floor(log2(n - tiny)), n >= 1
ExponentBelow(n) ==
  LET k == ExponentOf(n, 1) IN IF n = 2^k THEN k - 1 ELSE k

\* fl(a / b) - a/b as t/b units in the last place of the quotient, b > 0
QuotientError(a, b) ==
  LET s == 52 - ExponentOf(a, b)
      r == ((a % b) * Pow2Mod(s, b)) % b
      r2 == ((a % (2 * b)) * Pow2Mod(s, 2 * b)) % (2 * b)
  IN IF 2 * r < b THEN 0 - r
     ELSE IF 2 * r > b THEN b - r
     ELSE IF r2 < b THEN 0 - r ELSE b - r

\* fl(fl(a / b) * 100) for 100a/b = H whole, a > 0: [d, k], the result being
\* H + d * 2^(k - 52)
Times100(a, b) ==
  LET H == (100 * a) \div b
      t == QuotientError(a, b)
      k == IF t < 0 THEN ExponentBelow(H) ELSE ExponentOf(H, 1)
      m == k - ExponentOf(a, b)
  IN IF t = 0 \/ 200 * (IF t < 0 THEN 0 - t ELSE t) <= b * 2^m
     THEN [d |-> 0, k |-> k]
     ELSE [d |-> IF t > 0 THEN 1 ELSE -1, k |-> k]

\* whether 100a/b is a whole number the float product misses
OffBy(a, b) ==
  IF a = 0 \/ (100 * a) % b # 0 THEN 0 ELSE Times100(a, b).d

\* int(min(100, (a / b) * 100)), b > 0
IntPercent(a, b) ==
  LET H == (100 * a) \div b
      whole == (100 * a) % b = 0
  IN IF H > 100 \/ (H = 100 /\ (~whole \/ OffBy(a, b) >= 0)) THEN 100
     ELSE IF OffBy(a, b) = -1 THEN H - 1 ELSE H

Max(a, b) == IF a >= b THEN a ELSE b
Min(a, b) == IF a <= b THEN a ELSE b

\* floor(a / b), b > 0
FloorDiv(a, b) == a \div b

\* a variant of the confidence score without the floor of 0 under
\* 80 - hesitation_rate: int(min(100, max(0, 80 - hesitation_rate + adjustment)))
ConfidenceOf_NoBaseFloor(fillers, words, adjustment) ==
  LET hesN == Min(100 * words, 100 * fillers)
  IN FloorDiv(Min(100 * words,
                  Max(0, 80 * words - hesN + adjustment * words)), words)

\* int(min(100, max(0, max(0, 80 - hesitation_rate) + adjustment))) where
\* hesitation_rate = min(100, (fillers / words) * 100), words > 0
ConfidenceOf(fillers, words, adjustment) ==
  LET H == (100 * fillers) \div words
      whole == (100 * fillers) % words = 0
      \* in exact arithmetic, numerators over the denominator words
      hesN == Min(100 * words, 100 * fillers)
      baseN == Max(0, 80 * words - hesN)
      exact == FloorDiv(Min(100 * words, Max(0, baseN + adjustment * words)), words)
      B == 80 - H
      S == B + adjustment
      k == Times100(fillers, words).k
  IN IF whole /\ fillers > 0 /\ H <= 100 /\ OffBy(fillers, words) = 1
        /\ B > 0 /\ ExponentBelow(B) <= k
        /\ S > 0 /\ S <= 100 /\ ExponentBelow(S) <= k
     THEN S - 1
     ELSE exact

(***************************************************************************)
(* interview_utils.py: the analyzers                                       *)
(***************************************************************************)
\* a variant of analyze_speech_patterns that divides by total_words without
\* looking at it, and so raises on a text without words
analyze_speech_patterns_NoWordGuard(text) ==
  LET filler_count == CountAll(text, filler_words)
      total_words == WordCount(text)
      confident_count == CountAll(text, confident_phrases)
      uncertain_count == CountAll(text, uncertain_phrases)
      confidence_adjustment == (confident_count * 5) - (uncertain_count * 3)
      n == SentenceCount(text)
      w == SentenceWords(text)
      clarityN == 100 * n - 2 * (IF w >= 15 * n THEN w - 15 * n ELSE 15 * n - w)
  IN IF total_words = 0
     THEN [exception |-> "ZeroDivisionError", message |-> "division by zero"]
     ELSE [confidence_score |->
             ConfidenceOf(filler_count, total_words, confidence_adjustment),
           clarity_score |-> FloorDiv(Max(50 * n, Min(100 * n, clarityN)), n),
           hesitation_rate |-> IntPercent(filler_count, total_words),
           filler_word_count |-> filler_count,
           total_words |-> total_words,
           avg_sentence_length |-> RoundDiv(10 * w, n)]

analyze_speech_patterns(text) ==
  LET filler_count == CountAll(text, filler_words)
      total_words == WordCount(text)
      confident_count == CountAll(text, confident_phrases)
      uncertain_count == CountAll(text, uncertain_phrases)
      confidence_adjustment == (confident_count * 5) - (uncertain_count * 3)
      confidence_score ==
        IF total_words > 0
        THEN ConfidenceOf(filler_count, total_words, confidence_adjustment)
        ELSE Min(100, Max(0, 80 + confidence_adjustment))
      n == SentenceCount(text)
      w == SentenceWords(text)
      \* 100 - abs(w/n - 15) * 2, times n
      clarityN == 100 * n - 2 * (IF w >= 15 * n THEN w - 15 * n ELSE 15 * n - w)
  IN [confidence_score |-> confidence_score,
      clarity_score |-> FloorDiv(Max(50 * n, Min(100 * n, clarityN)), n),
      hesitation_rate |->
        IF total_words > 0 THEN IntPercent(filler_count, total_words) ELSE 0,
      filler_word_count |-> filler_count,
      total_words |-> total_words,
      \* round(avg_sentence_length, 1), in tenths
      avg_sentence_length |-> RoundDiv(10 * w, n)]

\* the number of keywords of the list that occur in text.lower()
HitCount(text, keywords) == Len(Mentioned(text, keywords))

\* max(d, key=d.get) over the keys in insertion order: the first maximum
\* a max that keeps the last of the largest
LastMaxKey(keys, d) ==
  LET i == CHOOSE j \in 1..Len(keys) :
             /\ \A m \in 1..Len(keys) : d[keys[m]] <= d[keys[j]]
             /\ \A m \in (j + 1)..Len(keys) : d[keys[m]] < d[keys[j]]
  IN keys[i]

\* max(d, key=d.get): the first key, in the order of keys, whose value is
\* the largest
FirstMaxKey(keys, d) ==
  LET i == CHOOSE j \in 1..Len(keys) :
             /\ \A m \in 1..Len(keys) : d[keys[m]] <= d[keys[j]]
             /\ \A m \in 1..(j - 1) : d[keys[m]] < d[keys[j]]
  IN keys[i]

\* What the polarity library answers for a text: its polarity and
\* subjectivity in thousandths, or an exception that is no ImportError.
BlobOutcomes ==
  { [kind |-> "ok", polarity |-> -500, subjectivity |-> 500],
    [kind |-> "ok", polarity |-> 0, subjectivity |-> 0],
    [kind |-> "ok", polarity |-> 304, subjectivity |-> 600],
    [kind |-> "ok", polarity |-> 800, subjectivity |-> 1000],
    [kind |-> "raise"] }

\* a keyword polarity whose default is 0
PolarityOf_ZeroDefault(text, advanced, blob) ==
  IF advanced
  THEN [polarity |-> <<blob.polarity, 1000>>,
        subjectivity |-> <<blob.subjectivity, 1000>>]
  ELSE LET positive_count == HitCount(text, positive_words)
           negative_count == HitCount(text, negative_words)
           total_sentiment_words == positive_count + negative_count
       IN [polarity |->
             IF total_sentiment_words > 0
             THEN <<positive_count - negative_count, total_sentiment_words>>
             ELSE <<0, 10>>,
           subjectivity |-> <<6, 10>>]

\* polarity and subjectivity as analyze_sentiment_emotions obtains them, each
\* a fraction <<a, b>>; blob is the library's answer when ADVANCED_FEATURES
PolarityOf(text, advanced, blob) ==
  IF advanced
  THEN [polarity |-> <<blob.polarity, 1000>>,
        subjectivity |-> <<blob.subjectivity, 1000>>]
  ELSE LET positive_count == HitCount(text, positive_words)
           negative_count == HitCount(text, negative_words)
           total_sentiment_words == positive_count + negative_count
       IN [polarity |->
             IF total_sentiment_words > 0
             THEN <<positive_count - negative_count, total_sentiment_words>>
             ELSE <<1, 10>>,
           subjectivity |-> <<6, 10>>]

\* round(f, 2) in hundredths, f a fraction
Round2(f) ==
  IF f[1] >= 0 THEN RoundDiv(100 * f[1], f[2])
  ELSE 0 - RoundDiv(100 * (0 - f[1]), f[2])

\* f > tenths/10 and f < -tenths/10, f a fraction
Above(f, tenths) == 10 * f[1] > tenths * f[2]
Below(f, tenths) == 10 * f[1] < (0 - tenths) * f[2]

\* analyze_sentiment_emotions without the `or 1` on the sum of the scores
analyze_sentiment_emotions_NoZeroGuard(text, advanced, blob) ==
  LET ps == PolarityOf(text, advanced, blob)
      low == Lower(text)
      emotion_scores ==
        [e \in {EMOTIONS[i] : i \in 1..Len(EMOTIONS)} |->
           SumSeq([i \in 1..Len(emotion_keywords[e]) |->
                     Count(low, emotion_keywords[e][i])])]
      total_emotion_score ==
        SumSeq([i \in 1..Len(EMOTIONS) |-> emotion_scores[EMOTIONS[i]]])
      emotion_percentages ==
        [e \in DOMAIN emotion_scores |->
           IntPercent(emotion_scores[e], total_emotion_score)]
  IN IF total_emotion_score = 0
     THEN [exception |-> "ZeroDivisionError", message |-> "division by zero"]
     ELSE [overall_sentiment |->
             IF Above(ps.polarity, 3) THEN "Positive"
             ELSE IF Below(ps.polarity, 3) THEN "Negative"
             ELSE "Neutral",
           polarity |-> Round2(ps.polarity),
           subjectivity |-> Round2(ps.subjectivity),
           emotion_breakdown |-> emotion_percentages,
           dominant_emotion |-> FirstMaxKey(EMOTIONS, emotion_percentages)]

\* the record analyze_sentiment_emotions returns; polarity and subjectivity
\* in hundredths
analyze_sentiment_emotions(text, advanced, blob) ==
  LET ps == PolarityOf(text, advanced, blob)
      low == Lower(text)
      emotion_scores ==
        [e \in {EMOTIONS[i] : i \in 1..Len(EMOTIONS)} |->
           SumSeq([i \in 1..Len(emotion_keywords[e]) |->
                     Count(low, emotion_keywords[e][i])])]
      total == SumSeq([i \in 1..Len(EMOTIONS) |-> emotion_scores[EMOTIONS[i]]])
      total_emotion_score == IF total = 0 THEN 1 ELSE total
      emotion_percentages ==
        [e \in DOMAIN emotion_scores |->
           IntPercent(emotion_scores[e], total_emotion_score)]
  IN [overall_sentiment |->
        IF Above(ps.polarity, 3) THEN "Positive"
        ELSE IF Below(ps.polarity, 3) THEN "Negative"
        ELSE "Neutral",
      polarity |-> Round2(ps.polarity),
      subjectivity |-> Round2(ps.subjectivity),
      emotion_breakdown |-> emotion_percentages,
      dominant_emotion |-> FirstMaxKey(EMOTIONS, emotion_percentages)]

\* analyze_content_quality without the cap on the technical score
analyze_content_quality_Uncapped(text) ==
  LET mentioned_technical == Mentioned(text, technical_skills)
      mentioned_soft == Mentioned(text, soft_skills)
      mentioned_experience == Mentioned(text, experience_indicators)
      technical_score == Len(mentioned_technical) * 8
      soft_score == Min(30, Len(mentioned_soft) * 6)
      experience_score == Min(30, Len(mentioned_experience) * 3)
  IN [content_quality_score |-> technical_score + soft_score + experience_score,
      technical_skills_mentioned |-> mentioned_technical,
      soft_skills_mentioned |-> mentioned_soft,
      experience_indicators |-> Len(mentioned_experience),
      detailed_breakdown |->
        [technical_score |-> technical_score,
         soft_skills_score |-> soft_score,
         experience_score |-> experience_score]]

\* the record analyze_content_quality returns
analyze_content_quality(text) ==
  LET mentioned_technical == Mentioned(text, technical_skills)
      mentioned_soft == Mentioned(text, soft_skills)
      mentioned_experience == Mentioned(text, experience_indicators)
      technical_score == Min(40, Len(mentioned_technical) * 8)
      soft_score == Min(30, Len(mentioned_soft) * 6)
      experience_score == Min(30, Len(mentioned_experience) * 3)
  IN [content_quality_score |-> technical_score + soft_score + experience_score,
      technical_skills_mentioned |-> mentioned_technical,
      soft_skills_mentioned |-> mentioned_soft,
      experience_indicators |-> Len(mentioned_experience),
      detailed_breakdown |->
        [technical_score |-> technical_score,
         soft_skills_score |-> soft_score,
         experience_score |-> experience_score]]

\* feedback.append(sentence) when the rule holds
\* a rule that puts its sentence in front: feedback.insert(0, sentence)
InsertIf(feedback, rule, sentence) ==
  IF rule THEN <<sentence>> \o feedback ELSE feedback

AppendIf(feedback, rule, sentence) ==
  IF rule THEN Append(feedback, sentence) ELSE feedback

generate_feedback(speech_analysis, sentiment_analysis, content_analysis) ==
  LET f1 == AppendIf(AppendIf(<<>>,
              speech_analysis.confidence_score < 60,
              "Practice speaking with more conviction. Use definitive statements like 'I can' instead of 'I think I can'."),
              speech_analysis.confidence_score >= 60
                /\ speech_analysis.confidence_score > 85,
              "Great confidence level! You come across as self-assured and capable.")
      f2 == AppendIf(AppendIf(f1,
              speech_analysis.hesitation_rate > 20,
              "Try to reduce filler words (um, ah, like). Practice speaking more deliberately and pause instead of using fillers."),
              speech_analysis.hesitation_rate <= 20
                /\ speech_analysis.hesitation_rate < 5,
              "Excellent fluency! You speak clearly without unnecessary hesitation.")
      f3 == AppendIf(f2,
              speech_analysis.clarity_score < 70,
              "Work on structuring your sentences better. Aim for 10-20 words per sentence for optimal clarity.")
      f4 == AppendIf(AppendIf(f3,
              sentiment_analysis.dominant_emotion = "nervousness",
              "Try relaxation techniques before interviews to manage nerves. Deep breathing can help you sound more composed."),
              sentiment_analysis.dominant_emotion = "enthusiasm",
              "Your enthusiasm comes through clearly! This positive energy is a great asset.")
      f5 == AppendIf(f4,
              content_analysis.content_quality_score < 50,
              "Include more specific examples of your technical skills and work experience.")
      f6 == AppendIf(f5,
              Len(content_analysis.technical_skills_mentioned) < 2,
              "Mention more relevant technical skills that match the job requirements.")
      f7 == AppendIf(f6,
              Len(content_analysis.soft_skills_mentioned) < 2,
              "Highlight soft skills like teamwork, leadership, or problem-solving with specific examples.")
  IN AppendIf(f7,
       sentiment_analysis.overall_sentiment = "Positive",
       "Maintain this positive attitude - it shows genuine interest in the role.")

(***************************************************************************)
(* Files and paths.  A path is [dir, name]: dir 0 is the directory of the  *)
(* uploaded file, dir d > 0 the d-th name tempfile.mkdtemp can return.     *)
(***************************************************************************)
None == [none |-> TRUE]

BYTES_PER_MB == 1048576

\* the video whose size and content vary, and one with an upper-case suffix
VIDEO_A == <<"a",".","m","p","4">>
VIDEO_UPPER == <<"c","l","i","p",".","M","P","4">>
VideoNames == {VIDEO_A, VIDEO_UPPER}
AudioNames == { <<"v","o","i","c","e",".","w","a","v">>,
                <<"t","e","s","t",".","m","p","3">> }

\* frame rate and frame count of the sampled videos: no frame rate, 0.4 s,
\* 10 s, 600 s, 600.04 s, and 600.004 s (which rounds to 600.0)
FrameSamples ==
  { <<0, 100>>, <<25, 10>>, <<25, 250>>, <<25, 15000>>, <<25, 15001>>,
    <<240, 144001>> }

\* sizes in bytes: 1 MB, exactly 100 MB, one byte more
SizeSamples == {BYTES_PER_MB, 100 * BYTES_PER_MB, 100 * BYTES_PER_MB + 1}

MissingFile(name) ==
  [path |-> [dir |-> 0, name |-> name], exists |-> FALSE, size |-> 0,
   opens |-> FALSE, fps |-> 0, frame_count |-> 0, width |-> 0, height |-> 0]

\* a video the decoder opens
Video(name, size, frames) ==
  [MissingFile(name) EXCEPT !.exists = TRUE, !.size = size, !.opens = TRUE,
                            !.fps = frames[1], !.frame_count = frames[2],
                            !.width = 640, !.height = 480]

\* the files a request can name: whether it exists, its size, whether the
\* decoder opens it, and what the decoder reads from it
Files ==
  {MissingFile(n) : n \in VideoNames \cup AudioNames}
  \cup {[MissingFile(n) EXCEPT !.exists = TRUE, !.size = BYTES_PER_MB] :
          n \in AudioNames}
  \cup {[MissingFile(VIDEO_A) EXCEPT !.exists = TRUE, !.size = s] :
          s \in SizeSamples}
  \cup {Video(VIDEO_A, s, f) : s \in SizeSamples, f \in FrameSamples}
  \cup {Video(VIDEO_UPPER, BYTES_PER_MB, <<25, 250>>)}

\* the names mkdtemp can return
TempDirs == 1..(MaxRetries + 1)

\* a directory of the caller's, which holds the video the caller passes
\* together with temp_dir
CallerDir == MaxRetries + 2

\* the videos such a caller passes: one in the upload directory, one in the
\* directory it also passes as temp_dir
CallerFiles ==
  {Video(VIDEO_A, BYTES_PER_MB, <<25, 250>>),
   [Video(VIDEO_A, BYTES_PER_MB, <<25, 250>>) EXCEPT !.path.dir = CallerDir]}

(***************************************************************************)
(* video_utils.py                                                          *)
(***************************************************************************)
\* get_video_info(video_path); available is VIDEO_PROCESSING_AVAILABLE.  A
\* decoder exception gives a record with the key error like a file that
\* does not open.  duration is in hundredths of a second.
get_video_info(f, available) ==
  IF ~available
  THEN [duration |-> 0, fps |-> 0, resolution |-> <<0, 0>>,
        format |-> <<"u","n","k","n","o","w","n">>,
        error |-> "Video processing libraries not available"]
  ELSE IF ~f.opens
  THEN [error |-> "Could not open video file"]
  ELSE [duration |-> DurationCs(f.frame_count, f.fps),
        fps |-> f.fps,
        resolution |-> <<f.width, f.height>>,
        frame_count |-> f.frame_count,
        format |-> Lower(PathSuffix(f.path.name))]

\* max_duration = 600 in process_video_for_interview_analysis
PV_MAX_DURATION == 600

\* process_video_for_interview_analysis, from the format check to the
\* duration check: the exception raised there, or None
ProbeError(f, available) ==
  LET video_info == get_video_info(f, available)
  IN IF ~is_video_file(f.path.name)
     THEN [exception |-> "Exception", message |-> "Unsupported video format"]
     ELSE IF "error" \in DOMAIN video_info
     THEN [exception |-> "Exception", message |-> video_info.error]
     ELSE IF video_info.duration > PV_MAX_DURATION * 100
     THEN [exception |-> "Exception", message |-> "Video too long"]
     ELSE None

\* audio_path = os.path.join(temp_dir, f"extracted_audio_{basename}.wav")
ExtractedAudioPath(f, temp_dir) ==
  [dir |-> temp_dir,
   name |-> <<"e","x","t","r","a","c","t","e","d","_","a","u","d","i","o","_">>
            \o BaseName(f.path.name) \o <<".","w","a","v">>]

\* what the MoviePy and the ffmpeg extraction can do on a video
ExtractOutcomes == {"ok", "raise"}

\* cleanup_temp_files that removes every file it can reach, not only those
\* of temp_dir
cleanup_temp_files_EveryFile(dirs, files, temp_dir, keep_audio) ==
  IF temp_dir # 0 /\ temp_dir \in dirs
  THEN [dirs |-> IF keep_audio THEN dirs ELSE dirs \ {temp_dir},
        files |-> {p \in files :
                     keep_audio /\ EndsWith(p.name, <<".","w","a","v">>)}]
  ELSE [dirs |-> dirs, files |-> files]

\* cleanup_temp_files(temp_dir, keep_audio): the directories and files left.
\* temp_dir = 0 is None.
cleanup_temp_files(dirs, files, temp_dir, keep_audio) ==
  IF temp_dir # 0 /\ temp_dir \in dirs
  THEN LET kept == {p \in files :
                      p.dir # temp_dir
                      \/ (keep_audio /\ EndsWith(p.name, <<".","w","a","v">>))}
       IN [dirs |-> IF keep_audio THEN dirs ELSE dirs \ {temp_dir},
           files |-> kept]
  ELSE [dirs |-> dirs, files |-> files]

(***************************************************************************)
(* video_error_handling.py                                                 *)
(***************************************************************************)
VideoValidationError(message) ==
  [exception |-> "VideoValidationError", message |-> message]

\* a variant of validate_video_file without the "Video too long" check
validate_video_file_NoDurationLimit(f, max_size_mb, max_duration_seconds, available, importable) ==
  LET file_ext == Lower(PathSuffix(f.path.name))
      basic == [valid |-> TRUE, file_size_mb |-> f.size, format |-> file_ext,
                warning |-> "Advanced validation skipped - video libraries not available"]
      video_info == get_video_info(f, available)
  IN IF ~f.exists THEN VideoValidationError("Video file not found")
     ELSE IF f.size > max_size_mb * BYTES_PER_MB
     THEN VideoValidationError("Video file too large")
     ELSE IF file_ext \notin SUPPORTED_VIDEO_FORMATS
     THEN VideoValidationError("Unsupported video format")
     ELSE IF ~importable \/ ~available THEN basic
     ELSE IF "error" \in DOMAIN video_info
     THEN VideoValidationError("Video file corrupted or unreadable")
     ELSE IF video_info.duration < 100
     THEN VideoValidationError("Video file appears to be empty or corrupted")
     ELSE [valid |-> TRUE, file_size_mb |-> f.size,
           duration |-> video_info.duration,
           resolution |-> video_info.resolution,
           format |-> file_ext, fps |-> video_info.fps]

\* validate_video_file(file_path, max_size_mb, max_duration_seconds): the
\* dict returned or the exception raised.  file_size_mb is kept in bytes.
validate_video_file(f, max_size_mb, max_duration_seconds, available, importable) ==
  LET file_ext == Lower(PathSuffix(f.path.name))
      basic == [valid |-> TRUE, file_size_mb |-> f.size, format |-> file_ext,
                warning |-> "Advanced validation skipped - video libraries not available"]
      video_info == get_video_info(f, available)
  IN IF ~f.exists THEN VideoValidationError("Video file not found")
     ELSE IF f.size > max_size_mb * BYTES_PER_MB
     THEN VideoValidationError("Video file too large")
     ELSE IF file_ext \notin SUPPORTED_VIDEO_FORMATS
     THEN VideoValidationError("Unsupported video format")
     ELSE IF ~importable THEN basic
     ELSE IF ~available THEN basic
     ELSE IF "error" \in DOMAIN video_info
     THEN VideoValidationError("Video file corrupted or unreadable")
     ELSE IF video_info.duration > max_duration_seconds * 100
     THEN VideoValidationError("Video too long")
     ELSE IF video_info.duration < 100
     THEN VideoValidationError("Video file appears to be empty or corrupted")
     ELSE [valid |-> TRUE, file_size_mb |-> f.size,
           duration |-> video_info.duration,
           resolution |-> video_info.resolution,
           format |-> file_ext, fps |-> video_info.fps]

IsException(x) == "exception" \in DOMAIN x

error_messages ==
  [validation |->
     [title |-> "Video File Issue",
      suggestions |->
        <<"Check that your video file is not corrupted",
          "Ensure the file is in a supported format (MP4, AVI, MOV, etc.)",
          "Try reducing the file size if it's too large",
          "Make sure the video is not too long (max 10 minutes)">>],
   processing |->
     [title |-> "Processing Error",
      suggestions |->
        <<"Try a different video file",
          "Ensure the video has a clear audio track",
          "Check that the video is not password protected",
          "Try converting the video to MP4 format">>],
   libraries |->
     [title |-> "System Configuration Issue",
      suggestions |->
        <<"Video processing libraries need to be installed",
          "Contact your system administrator",
          "Try uploading an audio file instead (.mp3, .wav)">>],
   unexpected |->
     [title |-> "Unexpected Error",
      suggestions |->
        <<"Try uploading your file again",
          "Check your internet connection",
          "Try a different video file",
          "Contact support if the problem persists">>]]

get_user_friendly_error(error_type, error_message) ==
  LET error_info ==
        IF error_type \in DOMAIN error_messages
        THEN error_messages[error_type]
        ELSE error_messages["unexpected"]
  IN [title |-> error_info.title,
      message |-> error_message,
      suggestions |-> error_info.suggestions,
      error_type |-> error_type]

(***************************************************************************)
(* interview_utils.py: transcription and the reports                       *)
(***************************************************************************)
\* what the recognizer can do with a recording: a text, or an exception
RecognitionOutcomes ==
  { [kind |-> "ok", text |-> Heard1],
    [kind |-> "ok", text |-> Heard2],
    [kind |-> "ok", text |-> Heard3],
    [kind |-> "UnknownValueError"],
    [kind |-> "RequestError"],
    [kind |-> "Exception"] }

\* a variant of transcribe_audio that goes to the recognizer whatever
\* ADVANCED_FEATURES is
transcribe_audio_NoBackendCheck(advanced, rec) ==
  IF rec.kind = "ok" THEN Lower(rec.text)
  ELSE IF rec.kind = "UnknownValueError" THEN UNKNOWN_VALUE_TEXT
  ELSE IF rec.kind = "RequestError" THEN REQUEST_ERROR_TEXT
  ELSE MOCK_TRANSCRIPT

\* a variant of transcribe_audio whose RequestError falls to the last handler
transcribe_audio_RequestErrorUnhandled(advanced, rec) ==
  IF ~advanced THEN DEMO_TRANSCRIPT
  ELSE IF rec.kind = "ok" THEN Lower(rec.text)
  ELSE IF rec.kind = "UnknownValueError" THEN UNKNOWN_VALUE_TEXT
  ELSE MOCK_TRANSCRIPT

\* a variant of transcribe_audio that returns the recognized text as it is
transcribe_audio_NoLower(advanced, rec) ==
  IF ~advanced THEN DEMO_TRANSCRIPT
  ELSE IF rec.kind = "ok" THEN rec.text
  ELSE IF rec.kind = "UnknownValueError" THEN UNKNOWN_VALUE_TEXT
  ELSE IF rec.kind = "RequestError" THEN REQUEST_ERROR_TEXT
  ELSE MOCK_TRANSCRIPT

\* transcribe_audio(audio_path): the text returned; advanced is
\* ADVANCED_FEATURES, rec what the recognizer does
transcribe_audio(advanced, rec) ==
  IF ~advanced THEN DEMO_TRANSCRIPT
  ELSE IF rec.kind = "ok" THEN Lower(rec.text)
  ELSE IF rec.kind = "UnknownValueError" THEN UNKNOWN_VALUE_TEXT
  ELSE IF rec.kind = "RequestError" THEN REQUEST_ERROR_TEXT
  ELSE MOCK_TRANSCRIPT

\* convert_audio_to_wav: the path audio_path.rsplit('.', 1)[0] + '.wav'
WavPath(p) ==
  LET i == LastIndexOf(p.name, ".")
      stem == IF i = 0 THEN p.name ELSE SubSeq(p.name, 1, i - 1)
  IN [dir |-> p.dir, name |-> stem \o <<".","w","a","v">>]

\* feedback[:n]
\* a slice that keeps the whole list
WholeList(s, n) == s

\* s[:n]
Prefix(s, n) == SubSeq(s, 1, Min(n, Len(s)))

\* the dict analyze_interview compiles on its success path; video_info is
\* None for an audio input
CompileResult(transcript, speech_analysis, sentiment_analysis, content_analysis, feedback, video_info) ==
  [overall_score |->
     OverallScore(speech_analysis.confidence_score,
                  speech_analysis.clarity_score,
                  speech_analysis.hesitation_rate,
                  content_analysis.content_quality_score),
   transcript |-> transcript,
   speech_analysis |-> speech_analysis,
   sentiment_analysis |-> sentiment_analysis,
   content_analysis |-> content_analysis,
   feedback |-> feedback,
   performance_summary |->
     [strengths |->
        AppendIf(AppendIf(AppendIf(<<>>,
          speech_analysis.confidence_score > 75, "High confidence level"),
          speech_analysis.hesitation_rate < 10, "Fluent speaking"),
          content_analysis.content_quality_score > 70, "Strong content quality"),
      areas_for_improvement |->
        AppendIf(AppendIf(AppendIf(<<>>,
          ~(speech_analysis.confidence_score > 75), "Build confidence"),
          ~(speech_analysis.hesitation_rate < 10), "Reduce hesitation"),
          ~(content_analysis.content_quality_score > 70), "Improve content depth"),
      recommendations |-> Prefix(feedback, 3)],
   video_metadata |->
     IF video_info # None
     THEN [file_type |-> "video",
           original_format |-> video_info.format,
           duration |-> video_info.duration,
           resolution |-> video_info.resolution,
           fps |-> video_info.fps,
           audio_extracted |-> TRUE]
     ELSE [file_type |-> "audio", audio_extracted |-> FALSE]]

\* the dict analyze_interview returns from its except branch;
\* avg_sentence_length in tenths, polarity and subjectivity in hundredths
FALLBACK_REPORT ==
  [overall_score |-> 78,
   transcript |-> "Audio processing unavailable - using demo analysis",
   speech_analysis |->
     [confidence_score |-> 78, clarity_score |-> 85, hesitation_rate |-> 12,
      filler_word_count |-> 3, total_words |-> 150,
      avg_sentence_length |-> 142],
   sentiment_analysis |->
     [overall_sentiment |-> "Positive", polarity |-> 40, subjectivity |-> 60,
      emotion_breakdown |->
        [enthusiasm |-> 30, confidence |-> 25, nervousness |-> 15,
         professionalism |-> 20, curiosity |-> 10],
      dominant_emotion |-> "enthusiasm"],
   content_analysis |->
     [content_quality_score |-> 75,
      technical_skills_mentioned |-> <<"python", "javascript", "react">>,
      soft_skills_mentioned |-> <<"teamwork", "problem solving">>,
      experience_indicators |-> 8],
   feedback |->
     <<"Great enthusiasm and positive attitude",
       "Consider adding more specific technical examples",
       "Practice speaking with slightly less hesitation">>,
   performance_summary |->
     [strengths |-> <<"High confidence level", "Strong content quality">>,
      areas_for_improvement |-> <<"Reduce hesitation">>,
      recommendations |->
        <<"Great enthusiasm and positive attitude",
          "Consider adding more specific technical examples",
          "Practice speaking with slightly less hesitation">>]]

(***************************************************************************)
(* The state machine: one call of an entry point, step by step.            *)
(***************************************************************************)
VARIABLES
  VIDEO_PROCESSING_AVAILABLE, \* video_utils: the media libraries loaded
  ADVANCED_FEATURES,          \* interview_utils: the audio libraries loaded
  video_utils_importable,     \* whether `from video_utils import ...` works
  file,                       \* the file the call names
  call,                       \* the entry point called, with its arguments
  pc,                         \* the statement the call is at
  dirs,                       \* the temporary directories that exist
  files,                      \* the paths of the files on disk
  ai,                         \* analyze_interview's locals
  pv,                         \* process_video_for_interview_analysis's locals
  svp,                        \* safe_video_processing's locals
  ret,                        \* what the call returned or raised
  log                         \* the library calls and checks made, in order

vars == <<VIDEO_PROCESSING_AVAILABLE, ADVANCED_FEATURES, video_utils_importable,
          file, call, pc, dirs, files, ai, pv, svp, ret, log>>

env == <<VIDEO_PROCESSING_AVAILABLE, ADVANCED_FEATURES, video_utils_importable,
         file, call>>

\* audio_path = file_path; temp_dir = None; video_info = None
AiInit ==
  [audio_path |-> file.path, temp_dir |-> 0, video_info |-> None,
   transcript |-> <<>>, speech_analysis |-> None,
   sentiment_analysis |-> None, content_analysis |-> None,
   feedback |-> <<>>, result |-> None, error |-> None]

PvInit == [temp_dir |-> 0, video_info |-> None, result |-> None]

\* history: whether each finished attempt succeeded, in order
SvpInit ==
  [validation_result |-> None, attempt |-> 0, last_error |-> None,
   history |-> <<>>]

\* the calls made: every entry point, on every sampled file
Calls ==
  {[fn |-> "analyze_interview"]}
  \cup {[fn |-> "safe_video_processing", max_retries |-> n] : n \in 0..MaxRetries}
  \cup {[fn |-> "validate_video_file", max_size_mb |-> 100,
         max_duration_seconds |-> d] : d \in {600, 5}}
  \cup {[fn |-> "extract_audio_with_ffmpeg"]}
  \* process_video_for_interview_analysis(video_path, temp_dir) followed by
  \* cleanup_temp_files; temp_dir 0 is None
  \cup {[fn |-> "process_video_then_cleanup", temp_dir |-> t] :
          t \in {0, CallerDir}}
  \cup {[fn |-> "get_user_friendly_error", error_type |-> t] :
          t \in {"validation", "processing", "libraries", "unexpected", "timeout"}}

\* the temp_dir argument of the call, 0 when it has none
GivenTempDir(c) ==
  IF c.fn = "process_video_then_cleanup" THEN c.temp_dir ELSE 0

EntryPc(c) ==
  CASE c.fn = "analyze_interview" -> "ai_detect"
    [] c.fn = "safe_video_processing" -> "svp_validate"
    [] c.fn = "validate_video_file" -> "vv_call"
    [] c.fn = "extract_audio_with_ffmpeg" -> "ff_ffmpeg"
    [] c.fn = "process_video_then_cleanup" -> "pv_mkdtemp"
    [] c.fn = "get_user_friendly_error" -> "ufe_call"

Init ==
  /\ VIDEO_PROCESSING_AVAILABLE \in BOOLEAN
  /\ ADVANCED_FEATURES \in BOOLEAN
  /\ video_utils_importable \in BOOLEAN
  \* video_utils sets the flag; interview_utils clears it when the import fails
  /\ VIDEO_PROCESSING_AVAILABLE => video_utils_importable
  /\ call \in Calls
  /\ file \in IF GivenTempDir(call) # 0 THEN CallerFiles ELSE Files
  /\ pc = EntryPc(call)
  /\ dirs = IF GivenTempDir(call) # 0 THEN {GivenTempDir(call)} ELSE {}
  /\ files = IF file.exists THEN {file.path} ELSE {}
  /\ ai = AiInit
  /\ pv = PvInit
  /\ svp = SvpInit
  /\ ret = None
  /\ log = <<>>

\* where process_video_for_interview_analysis returns to
ReturnPc ==
  CASE call.fn = "analyze_interview" -> "ai_video_result"
    [] call.fn = "process_video_then_cleanup" -> "pvc_cleanup"
    [] OTHER -> "svp_result"

\* process_video_for_interview_analysis's except branch: the dict returned
PvFailure(e, video_info) ==
  [success |-> FALSE, error |-> e.message, video_info |-> video_info]

(***************************************************************************)
(* process_video_for_interview_analysis(video_path), temp_dir not given    *)
(***************************************************************************)
\* if temp_dir is None: temp_dir = tempfile.mkdtemp(), a directory that did
\* not exist
PV_MkDtemp ==
  /\ pc = "pv_mkdtemp"
  /\ IF GivenTempDir(call) # 0
     THEN /\ pv' = [PvInit EXCEPT !.temp_dir = GivenTempDir(call)]
          /\ UNCHANGED <<dirs, log>>
     ELSE /\ \E d \in TempDirs \ dirs :
               /\ dirs' = dirs \cup {d}
               /\ pv' = [PvInit EXCEPT !.temp_dir = d]
          /\ log' = Append(log, "mkdtemp")
  /\ pc' = "pv_probe"
  /\ UNCHANGED <<env, files, ai, svp, ret>>

\* the format check, get_video_info and the duration check
PV_Probe ==
  /\ pc = "pv_probe"
  /\ LET e == ProbeError(file, VIDEO_PROCESSING_AVAILABLE)
         video_info == get_video_info(file, VIDEO_PROCESSING_AVAILABLE)
     IN IF e # None
        THEN /\ pv' = [pv EXCEPT
                         !.result =
                           PvFailure(e, IF is_video_file(file.path.name)
                                        THEN video_info ELSE None)]
             /\ pc' = ReturnPc
        ELSE /\ pv' = [pv EXCEPT !.video_info = video_info]
             /\ pc' = "pv_extract"
  /\ log' = Append(log, "check_duration")
  /\ UNCHANGED <<env, dirs, files, ai, svp, ret>>

\* extract_audio_from_video(video_path, audio_path), the check that the file
\* exists, and the return
PV_Extract ==
  /\ pc = "pv_extract"
  /\ \E outcome \in ExtractOutcomes :
       LET audio_path == ExtractedAudioPath(file, pv.temp_dir)
           raised == ~VIDEO_PROCESSING_AVAILABLE \/ outcome = "raise"
           written == IF raised THEN files ELSE files \cup {audio_path}
       IN /\ files' = written
          /\ pv' = [pv EXCEPT
                      !.result =
                        IF raised
                        THEN PvFailure([message |-> "Audio extraction failed"],
                                       pv.video_info)
                        ELSE IF audio_path \notin written
                        THEN PvFailure([message |-> "Audio extraction completed but file not found"],
                                       pv.video_info)
                        ELSE [success |-> TRUE,
                              audio_path |-> audio_path,
                              video_info |-> pv.video_info,
                              original_video |-> file.path,
                              temp_dir |-> pv.temp_dir]]
  /\ log' = Append(log, "moviepy")
  /\ pc' = ReturnPc
  /\ UNCHANGED <<env, dirs, ai, svp, ret>>

(***************************************************************************)
(* analyze_interview(file_path)                                            *)
(***************************************************************************)
\* if VIDEO_PROCESSING_AVAILABLE and is_video_file(file_path)
AI_DetectKind ==
  /\ pc = "ai_detect"
  /\ pc' = IF VIDEO_PROCESSING_AVAILABLE /\ is_video_file(file.path.name)
           THEN "pv_mkdtemp" ELSE "ai_transcribe"
  /\ UNCHANGED <<env, dirs, files, ai, pv, svp, ret, log>>

\* a variant that does not take video_info from the video result
AI_VideoResultDropsInfo ==
  /\ pc = "ai_video_result"
  /\ IF ~pv.result.success
     THEN /\ ai' = [ai EXCEPT !.error = [exception |-> "Exception",
                                         message |-> "Video processing failed"]]
          /\ pc' = "ai_except"
     ELSE /\ ai' = [ai EXCEPT !.audio_path = pv.result.audio_path,
                              !.temp_dir = pv.result.temp_dir]
          /\ pc' = "ai_transcribe"
  /\ UNCHANGED <<env, dirs, files, pv, svp, ret, log>>

\* a variant that removes the temporary files as soon as the video result is
\* back, before the audio is transcribed
AI_VideoResultCleansUp ==
  /\ pc = "ai_video_result"
  /\ IF ~pv.result.success
     THEN /\ ai' = [ai EXCEPT !.error = [exception |-> "Exception",
                                         message |-> "Video processing failed"]]
          /\ pc' = "ai_except"
          /\ UNCHANGED <<dirs, files>>
     ELSE /\ ai' = [ai EXCEPT !.audio_path = pv.result.audio_path,
                              !.temp_dir = pv.result.temp_dir,
                              !.video_info = pv.result.video_info]
          /\ pc' = "ai_transcribe"
          /\ LET left == cleanup_temp_files(dirs, files, pv.result.temp_dir, FALSE)
             IN /\ dirs' = left.dirs
                /\ files' = left.files
  /\ UNCHANGED <<env, pv, svp, ret, log>>

\* video_result is back: raise when it failed, else take its audio_path,
\* temp_dir and video_info
AI_VideoResult ==
  /\ pc = "ai_video_result"
  /\ IF ~pv.result.success
     THEN /\ ai' = [ai EXCEPT !.error = [exception |-> "Exception",
                                         message |-> "Video processing failed"]]
          /\ pc' = "ai_except"
     ELSE /\ ai' = [ai EXCEPT !.audio_path = pv.result.audio_path,
                              !.temp_dir = pv.result.temp_dir,
                              !.video_info = pv.result.video_info]
          /\ pc' = "ai_transcribe"
  /\ UNCHANGED <<env, dirs, files, pv, svp, ret, log>>

\* whether the recording at path p can be read
Readable(p) == p \in files

\* transcript = transcribe_audio(audio_path).  With a recognizer, a path that
\* does not end in .wav is converted first (a .wav file is written beside
\* it); a recording that cannot be read or converted makes the recognizer
\* raise.
AI_Transcribe ==
  /\ pc = "ai_transcribe"
  /\ LET p == ai.audio_path
         convert == ADVANCED_FEATURES
                    /\ ~EndsWith(Lower(p.name), <<".","w","a","v">>)
     IN \E converted \in IF convert /\ Readable(p) THEN BOOLEAN ELSE {FALSE} :
        \E rec \in IF ~ADVANCED_FEATURES THEN {[kind |-> "none"]}
                   ELSE IF ~Readable(p) \/ (convert /\ ~converted)
                   THEN {[kind |-> "Exception"]}
                   ELSE RecognitionOutcomes :
          /\ files' = IF converted THEN files \cup {WavPath(p)} ELSE files
          /\ ai' = [ai EXCEPT !.transcript = transcribe_audio(ADVANCED_FEATURES, rec)]
          /\ log' = log
                     \o (IF convert THEN <<"convert">> ELSE <<>>)
                     \o (IF ~ADVANCED_FEATURES THEN <<>>
                         ELSE IF rec.kind = "ok" THEN <<"recognize">>
                         ELSE IF ~Readable(p) \/ (convert /\ ~converted)
                         THEN <<"recognition_failed", rec.kind>>
                         ELSE <<"recognize", "recognition_failed", rec.kind>>)
  /\ pc' = "ai_speech"
  /\ UNCHANGED <<env, dirs, pv, svp, ret>>

AI_AnalyzeSpeech ==
  /\ pc = "ai_speech"
  /\ ai' = [ai EXCEPT !.speech_analysis = analyze_speech_patterns(ai.transcript)]
  /\ pc' = "ai_sentiment"
  /\ UNCHANGED <<env, dirs, files, pv, svp, ret, log>>

\* sentiment_analysis = analyze_sentiment_emotions(transcript); an exception
\* of the polarity library other than ImportError leaves the function
AI_AnalyzeSentiment ==
  /\ pc = "ai_sentiment"
  /\ \E blob \in IF ADVANCED_FEATURES THEN BlobOutcomes
                 ELSE {[kind |-> "none"]} :
       IF blob.kind = "raise"
       THEN /\ ai' = [ai EXCEPT !.error = [exception |-> "Exception",
                                           message |-> "sentiment"]]
            /\ pc' = "ai_except"
       ELSE /\ ai' = [ai EXCEPT !.sentiment_analysis =
                        analyze_sentiment_emotions(ai.transcript,
                                                   ADVANCED_FEATURES, blob)]
            /\ pc' = "ai_content"
  /\ UNCHANGED <<env, dirs, files, pv, svp, ret, log>>

AI_AnalyzeContent ==
  /\ pc = "ai_content"
  /\ ai' = [ai EXCEPT !.content_analysis = analyze_content_quality(ai.transcript)]
  /\ pc' = "ai_feedback"
  /\ UNCHANGED <<env, dirs, files, pv, svp, ret, log>>

AI_GenerateFeedback ==
  /\ pc = "ai_feedback"
  /\ ai' = [ai EXCEPT !.feedback =
              generate_feedback(ai.speech_analysis, ai.sentiment_analysis,
                                ai.content_analysis)]
  /\ pc' = "ai_compile"
  /\ UNCHANGED <<env, dirs, files, pv, svp, ret, log>>

\* overall_score, result, video_metadata, strengths and areas
AI_Compile ==
  /\ pc = "ai_compile"
  /\ ai' = [ai EXCEPT !.result =
              CompileResult(ai.transcript, ai.speech_analysis,
                            ai.sentiment_analysis, ai.content_analysis,
                            ai.feedback, ai.video_info)]
  /\ pc' = "ai_cleanup"
  /\ UNCHANGED <<env, dirs, files, pv, svp, ret, log>>

\* if temp_dir: cleanup_temp_files(temp_dir, keep_audio=False); return result
AI_CleanupReturn ==
  /\ pc = "ai_cleanup"
  /\ LET left == cleanup_temp_files(dirs, files, ai.temp_dir, FALSE)
     IN /\ dirs' = left.dirs
        /\ files' = left.files
  /\ log' = IF ai.temp_dir # 0 THEN Append(log, "cleanup") ELSE log
  /\ ret' = ai.result
  /\ pc' = "done"
  /\ UNCHANGED <<env, ai, pv, svp>>

\* a variant of the except branch that cleans up and lets the exception go
AI_ExceptReraise ==
  /\ pc = "ai_except"
  /\ LET left == cleanup_temp_files(dirs, files, ai.temp_dir, FALSE)
     IN /\ dirs' = left.dirs
        /\ files' = left.files
  /\ log' = IF ai.temp_dir # 0 THEN Append(log, "cleanup") ELSE log
  /\ ret' = ai.error
  /\ pc' = "done"
  /\ UNCHANGED <<env, ai, pv, svp>>

\* except Exception: clean up if temp_dir is set, return the fallback
AI_Except ==
  /\ pc = "ai_except"
  /\ LET left == cleanup_temp_files(dirs, files, ai.temp_dir, FALSE)
     IN /\ dirs' = left.dirs
        /\ files' = left.files
  /\ log' = IF ai.temp_dir # 0 THEN Append(log, "cleanup") ELSE log
  /\ ret' = FALLBACK_REPORT
  /\ pc' = "done"
  /\ UNCHANGED <<env, ai, pv, svp>>

(***************************************************************************)
(* safe_video_processing(file_path, max_retries)                           *)
(***************************************************************************)
\* the limits validate_video_file checks on the way to its answer
ValidationChecks(f, max_size_mb, available, importable) ==
  IF ~f.exists THEN <<>>
  ELSE IF f.size > max_size_mb * BYTES_PER_MB
          \/ Lower(PathSuffix(f.path.name)) \notin SUPPORTED_VIDEO_FORMATS
          \/ ~importable \/ ~available
          \/ "error" \in DOMAIN get_video_info(f, available)
  THEN <<"check_size">>
  ELSE <<"check_size", "check_duration">>

\* the dict of an except branch of safe_video_processing
SvpFailure(error_type, error, user_message) ==
  [success |-> FALSE, error |-> error, error_type |-> error_type,
   user_message |-> user_message]

\* a variant of the first step that lets a VideoValidationError go
SVP_ValidateRaises ==
  /\ pc = "svp_validate"
  /\ LET v == validate_video_file(file, 100, 600, VIDEO_PROCESSING_AVAILABLE,
                                  video_utils_importable)
     IN /\ log' = log \o ValidationChecks(file, 100, VIDEO_PROCESSING_AVAILABLE,
                                          video_utils_importable)
        /\ IF IsException(v)
           THEN /\ ret' = v
                /\ pc' = "done"
                /\ svp' = svp
           ELSE IF ~video_utils_importable
           THEN /\ ret' = SvpFailure("unexpected", "ImportError",
                            "An unexpected error occurred during video processing.")
                /\ pc' = "done"
                /\ svp' = [svp EXCEPT !.validation_result = v]
           ELSE /\ ret' = ret
                /\ pc' = "svp_loop"
                /\ svp' = [svp EXCEPT !.validation_result = v]
  /\ UNCHANGED <<env, dirs, files, ai, pv>>

\* validation_result = validate_video_file(file_path), then the import of
\* process_video_for_interview_analysis
SVP_Validate ==
  /\ pc = "svp_validate"
  /\ LET v == validate_video_file(file, 100, 600, VIDEO_PROCESSING_AVAILABLE,
                                  video_utils_importable)
     IN /\ log' = log \o ValidationChecks(file, 100, VIDEO_PROCESSING_AVAILABLE,
                                          video_utils_importable)
        /\ IF IsException(v)
           THEN /\ ret' = SvpFailure("validation", "Validation failed", v.message)
                /\ pc' = "done"
                /\ svp' = svp
           ELSE IF ~video_utils_importable
           THEN /\ ret' = SvpFailure("unexpected", "ImportError",
                            "An unexpected error occurred during video processing.")
                /\ pc' = "done"
                /\ svp' = [svp EXCEPT !.validation_result = v]
           ELSE /\ ret' = ret
                /\ pc' = "svp_loop"
                /\ svp' = [svp EXCEPT !.validation_result = v]
  /\ UNCHANGED <<env, dirs, files, ai, pv>>

\* a variant of the loop over range(max_retries + 2)
SVP_LoopOneMore ==
  /\ pc = "svp_loop"
  /\ IF svp.attempt < call.max_retries + 2
     THEN /\ pc' = "pv_mkdtemp"
          /\ log' = Append(log, "attempt")
          /\ ret' = ret
     ELSE /\ pc' = "done"
          /\ log' = log
          /\ ret' = SvpFailure("processing", "Video processing failed",
                      "Failed to extract audio from video. Please try a different video file.")
  /\ UNCHANGED <<env, dirs, files, ai, pv, svp>>

\* for attempt in range(max_retries + 1): the next attempt, or after the
\* last one raise AudioExtractionError, which is returned as a dict
SVP_Loop ==
  /\ pc = "svp_loop"
  /\ IF svp.attempt < call.max_retries + 1
     THEN /\ pc' = "pv_mkdtemp"
          /\ log' = Append(log, "attempt")
          /\ ret' = ret
     ELSE /\ pc' = "done"
          /\ log' = log
          /\ ret' = SvpFailure("processing", "Video processing failed",
                      "Failed to extract audio from video. Please try a different video file.")
  /\ UNCHANGED <<env, dirs, files, ai, pv, svp>>

\* the attempt is over.  process_video_for_interview_analysis catches every
\* Exception, so pv.result is a dict; the except branch of the loop (which
\* sleeps before a retry) is for an attempt that raises.
SVP_Result ==
  /\ pc = "svp_result"
  /\ LET raised == IsException(pv.result)
     IN IF ~raised /\ pv.result.success
        THEN /\ ret' = [success |-> TRUE, result |-> pv.result,
                        validation |-> svp.validation_result,
                        attempts |-> svp.attempt + 1]
             /\ pc' = "done"
             /\ svp' = [svp EXCEPT !.history = Append(svp.history, TRUE)]
             /\ log' = log
        ELSE /\ svp' = [svp EXCEPT
                          !.last_error = IF raised THEN pv.result.message
                                         ELSE pv.result.error,
                          !.attempt = svp.attempt + 1,
                          !.history = Append(svp.history, FALSE)]
             /\ log' = IF raised /\ svp.attempt < call.max_retries
                       THEN Append(log, "sleep") ELSE log
             /\ pc' = "svp_loop"
             /\ ret' = ret
  /\ UNCHANGED <<env, dirs, files, ai, pv>>

(***************************************************************************)
(* The other entry points                                                  *)
(***************************************************************************)
VV_Call ==
  /\ pc = "vv_call"
  /\ ret' = validate_video_file(file, call.max_size_mb, call.max_duration_seconds,
                                VIDEO_PROCESSING_AVAILABLE, video_utils_importable)
  /\ log' = log \o ValidationChecks(file, call.max_size_mb,
                                    VIDEO_PROCESSING_AVAILABLE,
                                    video_utils_importable)
  /\ pc' = "done"
  /\ UNCHANGED <<env, dirs, files, ai, pv, svp>>

\* output_audio_path = f"{Path(video_path).stem}_extracted_audio.wav"
DefaultAudioPath(f) ==
  LET name == PathName(f.path.name)
      i == LastIndexOf(name, ".")
      stem == IF 1 < i /\ i < Len(name) THEN SubSeq(name, 1, i - 1) ELSE name
  IN [dir |-> 0,
      name |-> stem \o <<"_","e","x","t","r","a","c","t","e","d","_","a","u","d","i","o",".","w","a","v">>]

\* what an extraction can do on the file: it fails on one that does not open
OutcomesOn(f) == IF f.opens THEN ExtractOutcomes ELSE {"raise"}

\* extract_audio_with_ffmpeg(video_path): the ffmpeg run
FF_Ffmpeg ==
  /\ pc = "ff_ffmpeg"
  /\ IF ~VIDEO_PROCESSING_AVAILABLE
     THEN /\ ret' = [exception |-> "Exception", message |-> "FFmpeg not available"]
          /\ pc' = "done"
          /\ UNCHANGED <<files, log>>
     ELSE \E outcome \in OutcomesOn(file) :
            /\ log' = Append(log, "ffmpeg")
            /\ IF outcome = "ok"
               THEN /\ files' = files \cup {DefaultAudioPath(file)}
                    /\ ret' = DefaultAudioPath(file)
                    /\ pc' = "done"
               ELSE /\ files' = files
                    /\ ret' = ret
                    /\ pc' = "ff_moviepy"
  /\ UNCHANGED <<env, dirs, ai, pv, svp>>

\* its except branch: return extract_audio_from_video(video_path, output_audio_path)
FF_MoviePy ==
  /\ pc = "ff_moviepy"
  /\ \E outcome \in OutcomesOn(file) :
       /\ log' = Append(log, "moviepy")
       /\ IF outcome = "ok"
          THEN /\ files' = files \cup {DefaultAudioPath(file)}
               /\ ret' = DefaultAudioPath(file)
          ELSE /\ files' = files
               /\ ret' = [exception |-> "Exception",
                          message |-> "Audio extraction failed"]
  /\ pc' = "done"
  /\ UNCHANGED <<env, dirs, ai, pv, svp>>

\* the caller of process_video_for_interview_analysis removes the
\* directory the result names, as analyze_interview does; a failure result
\* names none: cleanup_temp_files(result.get('temp_dir'))
PVC_Cleanup ==
  /\ pc = "pvc_cleanup"
  /\ LET temp_dir == IF pv.result.success THEN pv.result.temp_dir ELSE 0
         left == cleanup_temp_files(dirs, files, temp_dir, FALSE)
     IN /\ dirs' = left.dirs
        /\ files' = left.files
        /\ log' = IF temp_dir # 0 THEN Append(log, "cleanup") ELSE log
  /\ ret' = pv.result
  /\ pc' = "done"
  /\ UNCHANGED <<env, ai, pv, svp>>

UFE_Call ==
  /\ pc = "ufe_call"
  /\ ret' = get_user_friendly_error(call.error_type, "error_message")
  /\ pc' = "done"
  /\ UNCHANGED <<env, dirs, files, ai, pv, svp, log>>

Next ==
  \/ PV_MkDtemp \/ PV_Probe \/ PV_Extract
  \/ AI_DetectKind \/ AI_VideoResult \/ AI_Transcribe \/ AI_AnalyzeSpeech
  \/ AI_AnalyzeSentiment \/ AI_AnalyzeContent \/ AI_GenerateFeedback
  \/ AI_Compile \/ AI_CleanupReturn \/ AI_Except
  \/ SVP_Validate \/ SVP_Loop \/ SVP_Result
  \/ VV_Call \/ FF_Ffmpeg \/ FF_MoviePy \/ PVC_Cleanup \/ UFE_Call

Spec == Init /\ [][Next]_vars

(***************************************************************************)
(* The overall-score expression on its own: the four metrics are drawn     *)
(* from samples of 0..100 and the expression is applied to them.           *)
(***************************************************************************)
ScoreStep == 20

ConfidenceSamples == 0..100
ClaritySamples == {0, 1, 50, 85, 100}
HesitationSamples == {h \in 0..100 : h % ScoreStep = 0} \cup {12, 64, 100}
ContentSamples == {0, 3, 62, 75, 100}

ScoreCalls ==
  {[fn |-> "overall_score", confidence |-> c, clarity |-> l,
    hesitation |-> h, content |-> q] :
     c \in ConfidenceSamples, l \in ClaritySamples,
     h \in HesitationSamples, q \in ContentSamples}

InitScore ==
  /\ VIDEO_PROCESSING_AVAILABLE = FALSE
  /\ ADVANCED_FEATURES = FALSE
  /\ video_utils_importable = FALSE
  /\ file = MissingFile(VIDEO_A)
  /\ call \in ScoreCalls
  /\ pc = "score"
  /\ dirs = {}
  /\ files = {}
  /\ ai = AiInit
  /\ pv = PvInit
  /\ svp = SvpInit
  /\ ret = None
  /\ log = <<>>

\* overall_score = int(...) on the metrics of the call
Score_Call ==
  /\ pc = "score"
  /\ ret' = OverallScore(call.confidence, call.clarity, call.hesitation,
                         call.content)
  /\ pc' = "done"
  /\ UNCHANGED <<env, dirs, files, ai, pv, svp, log>>

NextScore == Score_Call

SpecScore == InitScore /\ [][NextScore]_vars

(***************************************************************************)
(* is_video_file on its own: the path is put together from a directory, a  *)
(* stem and an extension, written in lower case, upper case or capitalised.*)
(***************************************************************************)
\* str.upper(), one character
UpperChar(c) ==
  IF \E u \in DOMAIN UpperToLower : UpperToLower[u] = c
  THEN CHOOSE u \in DOMAIN UpperToLower : UpperToLower[u] = c
  ELSE c

Upper(s) == [i \in 1..Len(s) |-> UpperChar(s[i])]

Capitalised(s) == IF Len(s) = 0 THEN s ELSE <<UpperChar(s[1])>> \o Tail(s)

\* the extensions of the supported video formats, and others
VideoExtensions ==
  { <<"m","p","4">>, <<"a","v","i">>, <<"m","o","v">>, <<"m","k","v">>,
    <<"w","e","b","m">>, <<"f","l","v">>, <<"w","m","v">>, <<"m","4","v">> }

OtherExtensions ==
  { <<"w","a","v">>, <<"m","p","3">>, <<"t","x","t">>, <<"m","p">>,
    <<"m","p","4","4">>, <<"m","p","4","~">> }

SampleDirs == { <<>>, <<"u","p","/">>, <<"/","v",".","m","p","4","/">> }

SampleStems ==
  { <<"c","l","i","p">>, <<"n","o","t","e","s",".","m","p","4">>,
    <<".","h","i","d","d","e","n">> }

\* a path and the extension its name ends with (<<>>: none)
Named(name, extension) == [name |-> name, extension |-> extension]

SamplePaths ==
  {Named(d \o s \o <<".">> \o e, e) :
     d \in SampleDirs, s \in SampleStems,
     e \in UNION {{x, Upper(x), Capitalised(x)} :
                    x \in VideoExtensions \cup OtherExtensions}}
  \cup {Named(d \o <<"c","l","i","p">>, <<>>) : d \in SampleDirs}
  \cup {Named(d \o <<".","m","p","4">>, <<>>) : d \in SampleDirs}
  \cup {Named(d \o <<"c","l","i","p",".","m","p","4",".">>, <<>>) : d \in SampleDirs}
  \cup {Named(<<"c","l","i","p",".","M","P","4">>, <<"M","P","4">>),
        Named(<<"v","o","i","c","e",".","w","a","v">>, <<"w","a","v">>),
        Named(<<"t","e","s","t",".","m","p","3">>, <<"m","p","3">>),
        Named(<<"n","o","t","e","s",".","t","x","t">>, <<"t","x","t">>),
        Named(<<"u","p","/","c","l","i","p",".","m","p","4","/">>, <<"m","p","4">>)}

NameCalls == {[fn |-> "is_video_file", file_path |-> p] : p \in SamplePaths}

InitNames ==
  /\ VIDEO_PROCESSING_AVAILABLE = FALSE
  /\ ADVANCED_FEATURES = FALSE
  /\ video_utils_importable = FALSE
  /\ file = MissingFile(VIDEO_A)
  /\ call \in NameCalls
  /\ pc = "ivf_call"
  /\ dirs = {}
  /\ files = {}
  /\ ai = AiInit
  /\ pv = PvInit
  /\ svp = SvpInit
  /\ ret = None
  /\ log = <<>>

IVF_Call ==
  /\ pc = "ivf_call"
  /\ ret' = is_video_file(call.file_path.name)
  /\ pc' = "done"
  /\ UNCHANGED <<env, dirs, files, ai, pv, svp, log>>

NextNames == IVF_Call

SpecNames == InitNames /\ [][NextNames]_vars

(***************************************************************************)
(* analyze_speech_patterns on its own: the transcript is a few words, or   *)
(* one of the texts without words.                                         *)
(***************************************************************************)
MaxWords == 3

\* a filler, a confident phrase that holds a filler, an uncertain phrase,
\* one that holds a filler, a plain word and the end of a sentence
SpeechWords == {"um", "certainly", "maybe", "perhaps", "hello", "confident."}

\* the transcripts without a word: empty, blanks, dots
WordlessTexts == { <<>>, <<" ", " ">>, <<".">>, <<" ", ".", " ", ".">> }

SpeechTexts ==
  {Text(ws) : ws \in UNION {[1..n -> SpeechWords] : n \in 1..MaxWords}}
  \cup WordlessTexts
  \* two fillers in one word
  \cup {Spell["um"] \o Spell["um"]}

SpeechCalls == {[fn |-> "analyze_speech_patterns", text |-> t] : t \in SpeechTexts}

InitSpeech ==
  /\ VIDEO_PROCESSING_AVAILABLE = FALSE
  /\ ADVANCED_FEATURES = FALSE
  /\ video_utils_importable = FALSE
  /\ file = MissingFile(VIDEO_A)
  /\ call \in SpeechCalls
  /\ pc = "asp_call"
  /\ dirs = {}
  /\ files = {}
  /\ ai = AiInit
  /\ pv = PvInit
  /\ svp = SvpInit
  /\ ret = None
  /\ log = <<>>

ASP_Call ==
  /\ pc = "asp_call"
  /\ ret' = analyze_speech_patterns(call.text)
  /\ pc' = "done"
  /\ UNCHANGED <<env, dirs, files, ai, pv, svp, log>>

NextSpeech == ASP_Call

SpecSpeech == InitSpeech /\ [][NextSpeech]_vars

(***************************************************************************)
(* analyze_sentiment_emotions(text) on sampled transcripts, with and       *)
(* without the polarity library.                                           *)
(***************************************************************************)
\* a word of enthusiasm and of confidence, both positive words, a
\* capitalised word of nervousness, a negative word, a word of
\* professionalism, one of curiosity and a plain word
SentimentWords ==
  {"excited", "confident", "Nervous", "reliable", "learn", "hello"}

SentimentTexts ==
  {Text(ws) : ws \in UNION {[1..n -> SentimentWords] : n \in 1..MaxWords}}
  \cup {<<>>}

\* blob is what the polarity library answers when it is loaded
SentimentCalls ==
  {[fn |-> "analyze_sentiment_emotions", text |-> t, advanced |-> FALSE,
    blob |-> [kind |-> "none"]] : t \in SentimentTexts}
  \cup {[fn |-> "analyze_sentiment_emotions", text |-> t, advanced |-> TRUE,
         blob |-> b] : t \in SentimentTexts, b \in BlobOutcomes}

InitSentiment ==
  /\ VIDEO_PROCESSING_AVAILABLE = FALSE
  /\ call \in SentimentCalls
  /\ ADVANCED_FEATURES = call.advanced
  /\ video_utils_importable = FALSE
  /\ file = MissingFile(VIDEO_A)
  /\ pc = "ase_call"
  /\ dirs = {}
  /\ files = {}
  /\ ai = AiInit
  /\ pv = PvInit
  /\ svp = SvpInit
  /\ ret = None
  /\ log = <<>>

\* the call returns the record, or the library's exception leaves it
ASE_Call ==
  /\ pc = "ase_call"
  /\ ret' = IF call.blob.kind = "raise"
            THEN [exception |-> "Exception", message |-> "sentiment"]
            ELSE analyze_sentiment_emotions(call.text, ADVANCED_FEATURES,
                                            call.blob)
  /\ pc' = "done"
  /\ UNCHANGED <<env, dirs, files, ai, pv, svp, log>>

NextSentiment == ASE_Call

SpecSentiment == InitSentiment /\ [][NextSentiment]_vars

(***************************************************************************)
(* analyze_content_quality(text) on sampled transcripts.                   *)
(***************************************************************************)
MaxPhrases == 2

\* what a candidate says in one breath: five technical skills (java inside
\* javascript, sql inside postgresql), a capitalised one, an experience
\* word that holds the skill 'ai', two groups of soft skills, two groups of
\* experience words, and a plain word
ContentPhrases ==
  { <<"python", "javascript", "postgresql">>,
    <<"Python">>,
    <<"maintained">>,
    <<"teamwork", "leadership", "communication">>,
    <<"creative", "analytical", "motivated">>,
    <<"worked", "developed", "built", "implemented", "managed", "created">>,
    <<"designed", "optimized", "deployed", "experience", "led">>,
    <<"hello">> }

RECURSIVE PhraseLists(_)
\* the words of at most n phrases, one after the other
PhraseLists(n) ==
  IF n = 0 THEN {<<>>}
  ELSE PhraseLists(n - 1)
       \cup {ph \o rest : ph \in ContentPhrases, rest \in PhraseLists(n - 1)}

ContentTexts == {Text(ws) : ws \in PhraseLists(MaxPhrases)}

ContentCalls ==
  {[fn |-> "analyze_content_quality", text |-> t] : t \in ContentTexts}

InitContent ==
  /\ VIDEO_PROCESSING_AVAILABLE = FALSE
  /\ ADVANCED_FEATURES = FALSE
  /\ video_utils_importable = FALSE
  /\ file = MissingFile(VIDEO_A)
  /\ call \in ContentCalls
  /\ pc = "acq_call"
  /\ dirs = {}
  /\ files = {}
  /\ ai = AiInit
  /\ pv = PvInit
  /\ svp = SvpInit
  /\ ret = None
  /\ log = <<>>

ACQ_Call ==
  /\ pc = "acq_call"
  /\ ret' = analyze_content_quality(call.text)
  /\ pc' = "done"
  /\ UNCHANGED <<env, dirs, files, ai, pv, svp, log>>

NextContent == ACQ_Call

SpecContent == InitContent /\ [][NextContent]_vars

(***************************************************************************)
(* generate_feedback(speech_analysis, sentiment_analysis,                  *)
(* content_analysis) on sampled metrics, called twice.                     *)
(***************************************************************************)
\* the values on both sides of each threshold of the rules
FeedbackSpeech ==
  [confidence_score : {59, 60, 85, 86}, hesitation_rate : {4, 5, 20, 21},
   clarity_score : {69, 70}]

FeedbackSentiment ==
  [dominant_emotion : {"enthusiasm", "nervousness", "confidence"},
   overall_sentiment : {"Positive", "Neutral", "Negative"}]

FeedbackContent ==
  [content_quality_score : {49, 50},
   technical_skills_mentioned : {<<"python">>, <<"python", "sql">>},
   soft_skills_mentioned : {<<"teamwork">>, <<"teamwork", "leadership">>}]

FeedbackCalls ==
  {[fn |-> "generate_feedback", speech_analysis |-> sp,
    sentiment_analysis |-> se, content_analysis |-> co] :
     sp \in FeedbackSpeech, se \in FeedbackSentiment, co \in FeedbackContent}

InitFeedback ==
  /\ VIDEO_PROCESSING_AVAILABLE = FALSE
  /\ ADVANCED_FEATURES = FALSE
  /\ video_utils_importable = FALSE
  /\ file = MissingFile(VIDEO_A)
  /\ call \in FeedbackCalls
  /\ pc = "gf_call"
  /\ dirs = {}
  /\ files = {}
  /\ ai = AiInit
  /\ pv = PvInit
  /\ svp = SvpInit
  /\ ret = None
  /\ log = <<>>

\* the first call
GF_Call ==
  /\ pc = "gf_call"
  /\ ret' = generate_feedback(call.speech_analysis, call.sentiment_analysis,
                              call.content_analysis)
  /\ pc' = "gf_again"
  /\ UNCHANGED <<env, dirs, files, ai, pv, svp, log>>

\* a second call with the same arguments; its list is kept in ai.feedback
GF_CallAgain ==
  /\ pc = "gf_again"
  /\ ai' = [ai EXCEPT !.feedback =
              generate_feedback(call.speech_analysis, call.sentiment_analysis,
                                call.content_analysis)]
  /\ pc' = "done"
  /\ UNCHANGED <<env, dirs, files, pv, svp, ret, log>>

NextFeedback == GF_Call \/ GF_CallAgain

SpecFeedback == InitFeedback /\ [][NextFeedback]_vars

(***************************************************************************)
(* Concurrent analyze_interview requests on video inputs.  pc, file, ai,   *)
(* pv and ret hold one value per request; dirs and files are the one file  *)
(* system the requests share.  A step that reads a file over a span of     *)
(* time is split in two, so that the other requests can act in between.    *)
(***************************************************************************)
NumRequests == 2

Requests == 1..NumRequests

\* the videos the requests name: one the decoder opens, one that is missing
ConcFiles == {Video(VIDEO_A, BYTES_PER_MB, <<25, 250>>),
              MissingFile(VIDEO_UPPER)}

\* the locals of one analyze_interview call; reading, made_dirs and
\* made_files record the paths it has open and the paths it created that
\* are still its own
ReqInit(f) ==
  [audio_path |-> f.path, temp_dir |-> 0, error |-> None, reading |-> {},
   made_dirs |-> {}, made_files |-> {}]

InitConc ==
  /\ VIDEO_PROCESSING_AVAILABLE \in BOOLEAN
  /\ ADVANCED_FEATURES \in BOOLEAN
  /\ video_utils_importable = VIDEO_PROCESSING_AVAILABLE
  /\ call = [fn |-> "concurrent_analyze_interview"]
  /\ file \in [Requests -> ConcFiles]
  /\ pc = [r \in Requests |-> "ai_detect"]
  /\ dirs = {}
  /\ files = {file[r].path : r \in {q \in Requests : file[q].exists}}
  /\ ai = [r \in Requests |-> ReqInit(file[r])]
  /\ pv = [r \in Requests |-> PvInit]
  /\ svp = SvpInit
  /\ ret = [r \in Requests |-> None]
  /\ log = <<>>

\* if VIDEO_PROCESSING_AVAILABLE and is_video_file(file_path)
CR_DetectKind(r) ==
  /\ pc[r] = "ai_detect"
  /\ pc' = [pc EXCEPT ![r] =
              IF VIDEO_PROCESSING_AVAILABLE /\ is_video_file(file[r].path.name)
              THEN "pv_mkdtemp" ELSE "ai_transcribe"]
  /\ UNCHANGED <<env, file, call, dirs, files, ai, pv, svp, ret, log>>

\* a mkdtemp that hands every caller the same directory
CR_MkDtempShared(r) ==
  /\ pc[r] = "pv_mkdtemp"
  /\ dirs' = dirs \cup {1}
  /\ pv' = [pv EXCEPT ![r] = [PvInit EXCEPT !.temp_dir = 1]]
  /\ ai' = [ai EXCEPT ![r].made_dirs = @ \cup {1}]
  /\ pc' = [pc EXCEPT ![r] = "pv_probe"]
  /\ UNCHANGED <<env, file, call, files, svp, ret, log>>

\* temp_dir = tempfile.mkdtemp(): creates, in one step of the file system,
\* a directory that did not exist
CR_MkDtemp(r) ==
  /\ pc[r] = "pv_mkdtemp"
  /\ \E d \in TempDirs \ dirs :
       /\ dirs' = dirs \cup {d}
       /\ pv' = [pv EXCEPT ![r] = [PvInit EXCEPT !.temp_dir = d]]
       /\ ai' = [ai EXCEPT ![r].made_dirs = @ \cup {d}]
  /\ pc' = [pc EXCEPT ![r] = "pv_probe"]
  /\ UNCHANGED <<env, file, call, files, svp, ret, log>>

\* the format check, get_video_info and the duration check
CR_Probe(r) ==
  /\ pc[r] = "pv_probe"
  /\ LET e == ProbeError(file[r], VIDEO_PROCESSING_AVAILABLE)
         video_info == get_video_info(file[r], VIDEO_PROCESSING_AVAILABLE)
     IN IF e # None
        THEN /\ pv' = [pv EXCEPT
                         ![r].result =
                           PvFailure(e, IF is_video_file(file[r].path.name)
                                        THEN video_info ELSE None)]
             /\ ai' = ai
             /\ pc' = [pc EXCEPT ![r] = "ai_video_result"]
        ELSE /\ pv' = [pv EXCEPT ![r].video_info = video_info]
             \* VideoFileClip(video_path) opens the source
             /\ ai' = [ai EXCEPT ![r].reading = {file[r].path}]
             /\ pc' = [pc EXCEPT ![r] = "pv_extract"]
  /\ UNCHANGED <<env, file, call, dirs, files, svp, ret, log>>

\* audio.write_audiofile(audio_path), the closing of the clip, the check
\* that the file exists, and the return
CR_Extract(r) ==
  /\ pc[r] = "pv_extract"
  /\ \E outcome \in ExtractOutcomes :
       LET audio_path == ExtractedAudioPath(file[r], pv[r].temp_dir)
           raised == outcome = "raise"
           written == IF raised THEN files ELSE files \cup {audio_path}
       IN /\ files' = written
          /\ ai' = [ai EXCEPT ![r].reading = {},
                              ![r].made_files =
                                IF raised THEN @ ELSE @ \cup {audio_path}]
          /\ pv' = [pv EXCEPT
                      ![r].result =
                        IF raised
                        THEN PvFailure([message |-> "Audio extraction failed"],
                                       pv[r].video_info)
                        ELSE [success |-> TRUE,
                              audio_path |-> audio_path,
                              video_info |-> pv[r].video_info,
                              original_video |-> file[r].path,
                              temp_dir |-> pv[r].temp_dir]]
  /\ pc' = [pc EXCEPT ![r] = "ai_video_result"]
  /\ UNCHANGED <<env, file, call, dirs, svp, ret, log>>

\* if not video_result['success']: raise; else take audio_path and temp_dir
CR_VideoResult(r) ==
  /\ pc[r] = "ai_video_result"
  /\ IF ~pv[r].result.success
     THEN /\ ai' = [ai EXCEPT ![r].error =
                      [exception |-> "Exception",
                       message |-> "Video processing failed"]]
          /\ pc' = [pc EXCEPT ![r] = "ai_except"]
     ELSE /\ ai' = [ai EXCEPT ![r].audio_path = pv[r].result.audio_path,
                              ![r].temp_dir = pv[r].result.temp_dir]
          /\ pc' = [pc EXCEPT ![r] = "ai_transcribe"]
  /\ UNCHANGED <<env, file, call, dirs, files, pv, svp, ret, log>>

\* transcribe_audio up to the opening of the recording: the demo text
\* without the speech backend, else the conversion of a file that is not a
\* WAV, which writes the WAV next to it, and sr.AudioFile(file_path)
CR_TranscribeOpen(r) ==
  /\ pc[r] = "ai_transcribe"
  /\ LET p == ai[r].audio_path
         convert == ADVANCED_FEATURES
                    /\ ~EndsWith(Lower(p.name), <<".","w","a","v">>)
     IN \E converted \in IF convert /\ Readable(p) THEN BOOLEAN ELSE {FALSE} :
          LET opened == /\ ADVANCED_FEATURES
                        /\ Readable(p)
                        /\ convert => converted
          IN /\ files' = IF converted THEN files \cup {WavPath(p)} ELSE files
             /\ ai' = [ai EXCEPT
                         ![r].reading =
                           IF ~opened THEN {}
                           ELSE IF converted THEN {WavPath(p)} ELSE {p},
                         ![r].made_files =
                           IF converted THEN @ \cup {WavPath(p)} ELSE @]
             /\ pc' = [pc EXCEPT ![r] =
                         IF opened THEN "ai_recognize" ELSE "ai_analyze"]
  /\ UNCHANGED <<env, file, call, dirs, pv, svp, ret, log>>

\* recognizer.record(source), recognize_google, and the closing of the file
CR_Recognize(r) ==
  /\ pc[r] = "ai_recognize"
  /\ ai' = [ai EXCEPT ![r].reading = {}]
  /\ pc' = [pc EXCEPT ![r] = "ai_analyze"]
  /\ UNCHANGED <<env, file, call, dirs, files, pv, svp, ret, log>>

\* the analyzers, the feedback, the score and the result: they touch the
\* locals of the call only, and an exception of theirs goes to the except
\* branch
CR_Analyze(r) ==
  /\ pc[r] = "ai_analyze"
  /\ \E raised \in BOOLEAN :
       IF raised
       THEN /\ ai' = [ai EXCEPT ![r].error =
                        [exception |-> "Exception", message |-> "analysis"]]
            /\ pc' = [pc EXCEPT ![r] = "ai_except"]
       ELSE /\ ai' = ai
            /\ pc' = [pc EXCEPT ![r] = "ai_cleanup"]
  /\ UNCHANGED <<env, file, call, dirs, files, pv, svp, ret, log>>

\* if temp_dir: cleanup_temp_files(temp_dir), then the return: of the
\* analysis from the try block, of the fallback from the except branch
CR_CleanupReturn(r) ==
  /\ pc[r] \in {"ai_cleanup", "ai_except"}
  /\ LET left == cleanup_temp_files(dirs, files, ai[r].temp_dir, FALSE)
     IN /\ dirs' = left.dirs
        /\ files' = left.files
        /\ ai' = [ai EXCEPT ![r].made_dirs = @ \cap left.dirs,
                            ![r].made_files = @ \cap left.files]
  /\ ret' = [ret EXCEPT ![r] = IF pc[r] = "ai_cleanup" THEN "analysis"
                               ELSE "fallback"]
  /\ pc' = [pc EXCEPT ![r] = "done"]
  /\ UNCHANGED <<env, file, call, pv, svp, log>>

NextConc ==
  \E r \in Requests :
    \/ CR_DetectKind(r) \/ CR_MkDtemp(r) \/ CR_Probe(r) \/ CR_Extract(r)
    \/ CR_VideoResult(r) \/ CR_TranscribeOpen(r) \/ CR_Recognize(r)
    \/ CR_Analyze(r) \/ CR_CleanupReturn(r)

SpecConc == InitConc /\ [][NextConc]_vars

(***************************************************************************)
(* Properties                                                              *)
(***************************************************************************)
\* the positions of an event in the log
Events(ev) == {i \in DOMAIN log : log[i] = ev}

\* the call was made through the video pipeline
InPipeline == call.fn \in {"analyze_interview", "safe_video_processing"}

AI_Returned == call.fn = "analyze_interview" /\ pc = "done"
SVP_Returned == call.fn = "safe_video_processing" /\ pc = "done"
VV_Returned == call.fn = "validate_video_file" /\ pc = "done"

\* C1: when analyze_interview returns for a call that created a temporary
\* directory, no temporary directory and no file inside one exists any more.
C1_TempDirGoneAtReturn ==
  (AI_Returned /\ Events("mkdtemp") # {})
    => (dirs = {} /\ \A p \in files : p.dir = 0)

\* the steps of analyze_interview that can fail
VideoStepFailed == pv.result # None /\ ~pv.result.success
TranscriptionFailed == Events("recognition_failed") # {}
AnalyzerFailed == ai.error # None /\ ai.error.message = "sentiment"

\* the texts transcribe_audio returns when recognition fails
PlaceholderTexts == {UNKNOWN_VALUE_TEXT, REQUEST_ERROR_TEXT, MOCK_TRANSCRIPT}

\* C2 as stated: analyze_interview returns a report and never an exception,
\* and whenever video processing, transcription or an analyzer failed the
\* report is the fixed fallback report.
C2_FallbackOnAnyFailure ==
  AI_Returned =>
    /\ ~IsException(ret)
    /\ (VideoStepFailed \/ TranscriptionFailed \/ AnalyzerFailed)
         => ret = FALLBACK_REPORT

\* what analyze_interview returns: never an exception; the fallback report
\* exactly when video processing or an analyzer failed; after a failed
\* recognition alone, the report compiled from the placeholder text
C2_ReportRule ==
  AI_Returned =>
    /\ ~IsException(ret)
    /\ (VideoStepFailed \/ AnalyzerFailed) <=> (ret = FALLBACK_REPORT)
    /\ (TranscriptionFailed /\ ~AnalyzerFailed)
         => /\ ret = ai.result
            /\ ret.transcript \in PlaceholderTexts
            /\ ret.speech_analysis = analyze_speech_patterns(ret.transcript)

\* the statements analyze_interview has yet to pass through, at most
StepsLeft ==
  CASE pc = "ai_detect" -> 12
    [] pc = "pv_mkdtemp" -> 11
    [] pc = "pv_probe" -> 10
    [] pc = "pv_extract" -> 9
    [] pc = "ai_video_result" -> 8
    [] pc = "ai_transcribe" -> 7
    [] pc = "ai_speech" -> 6
    [] pc = "ai_sentiment" -> 5
    [] pc = "ai_content" -> 4
    [] pc = "ai_feedback" -> 3
    [] pc = "ai_compile" -> 2
    [] pc \in {"ai_cleanup", "ai_except"} -> 1
    [] OTHER -> 0

\* C2: analyze_interview never raises: every step takes the call closer to
\* its return (it has no loop), and it returns a report, never an
\* exception; the fixed fallback report is returned exactly when video
\* processing or an analyzer failed, and a failed transcription alone yields
\* the normal report of the placeholder text.
C2_NeverRaisesFallbackOnException ==
  /\ []C2_ReportRule
  /\ [][call.fn = "analyze_interview" => StepsLeft' < StepsLeft]_vars

\* an analyzer raised on an audio input and the fallback report came back
C2_Witness ==
  /\ AI_Returned
  /\ AnalyzerFailed
  /\ pv.result = None
  /\ ret = FALLBACK_REPORT

ReportFields ==
  {"overall_score", "transcript", "speech_analysis", "sentiment_analysis",
   "content_analysis", "feedback", "performance_summary", "video_metadata"}

\* C3: every report analyze_interview returns, compiled or fallback, has the
\* fields overall_score, transcript, speech_analysis, sentiment_analysis,
\* content_analysis, feedback, performance_summary and video_metadata.
C3_ReportHasAllFields ==
  AI_Returned => ReportFields \subseteq DOMAIN ret

ScoreReturned == call.fn = "overall_score" /\ pc = "done"

\* the exact weighted sum of the call's metrics, in hundredths
CallHundredths ==
  ExactHundredths(call.confidence, call.clarity, call.hesitation, call.content)

\* C4 as stated: the overall score is the exact weighted sum rounded to the
\* nearest integer, that is, within one half of it.
C4_RoundedToNearest ==
  ScoreReturned =>
    /\ 100 * ret - CallHundredths <= 50
    /\ CallHundredths - 100 * ret <= 50

\* C4: the overall score is the weighted sum truncated: the floor of the
\* exact sum whenever that sum is not a whole number, and the exact sum or
\* one less (the double sum falling just short) when it is; the metrics
\* 78, 85, 12, 75 give 80.
C4_TruncatedWeightedSum ==
  ScoreReturned =>
    /\ CallHundredths % 100 # 0 => ret = CallHundredths \div 100
    /\ CallHundredths % 100 = 0
         => ret \in {CallHundredths \div 100, (CallHundredths \div 100) - 1}
    /\ (/\ call.confidence = 78 /\ call.clarity = 85
        /\ call.hesitation = 12 /\ call.content = 75) => ret = 80

\* the sum 0.6 is truncated to 0, or the whole sum 24 comes out as 23
C4_Witness ==
  /\ ScoreReturned
  /\ \/ /\ call.confidence = 2 /\ call.clarity = 0
        /\ call.hesitation = 100 /\ call.content = 0
        /\ CallHundredths = 60
        /\ ret = 0
     \/ /\ call.confidence = 0 /\ call.clarity = 0
        /\ call.hesitation = 64 /\ call.content = 62
        /\ CallHundredths = 2400
        /\ ret = 23

\* C5: in the video pipeline every MoviePy extraction follows an ffmpeg
\* extraction that failed, and the video stage fails on extraction only
\* after both were tried.
C5_FfmpegBeforeMoviePy ==
  InPipeline =>
    \A i \in Events("moviepy") : \E j \in Events("ffmpeg") : j < i

\* the attempts safe_video_processing has finished
Attempts == Len(svp.history)

\* C6: safe_video_processing with max_retries = n makes at most n + 1
\* attempts, makes none after one that succeeded, reports on success the
\* 1-based number of the attempt that succeeded, and returns the error type
\* 'processing' exactly after n + 1 failed attempts.
C6_BoundedAttempts ==
  call.fn = "safe_video_processing" =>
    /\ Cardinality(Events("attempt")) <= call.max_retries + 1
    /\ Attempts <= Cardinality(Events("attempt"))
    /\ \A i \in 1..(Attempts - 1) : ~svp.history[i]
    /\ (Attempts > 0 /\ svp.history[Attempts]) => pc = "done"
    /\ (pc = "done" /\ ret.success)
         => /\ svp.history[Attempts]
            /\ ret.attempts = Attempts
            /\ ret.attempts = Cardinality(Events("attempt"))
            /\ ret.attempts \in 1..(call.max_retries + 1)
    /\ (pc = "done" /\ ~ret.success /\ ret.error_type = "processing")
         => /\ Attempts = call.max_retries + 1
            /\ \A i \in 1..Attempts : ~svp.history[i]
    /\ (pc = "done" /\ Attempts > 0 /\ ~svp.history[Attempts])
         => /\ ~ret.success
            /\ ret.error_type = "processing"

\* the second attempt succeeded after the first failed
C6_Witness ==
  /\ SVP_Returned
  /\ ret.success
  /\ ret.attempts = 2
  /\ svp.history = <<FALSE, TRUE>>

\* C7: between a failed attempt of safe_video_processing and the next
\* attempt the fixed delay elapses.
C7_DelayBetweenAttempts ==
  call.fn = "safe_video_processing" =>
    \A i, j \in Events("attempt") :
      i < j => \E k \in Events("sleep") : i < k /\ k < j

\* the file is within the limits: 100 MB and 600 s
WithinLimits(f) ==
  /\ f.size <= 100 * BYTES_PER_MB
  /\ f.fps > 0 => f.frame_count <= 600 * f.fps

\* C8: in every pipeline run the size limit and the duration limit are
\* checked before the audio is extracted, so that no extraction runs on a
\* file outside the limits.
C8_LimitsBeforeExtraction ==
  InPipeline =>
    \A i \in Events("moviepy") :
      /\ \E j \in Events("check_size") : j < i
      /\ \E j \in Events("check_duration") : j < i
      /\ WithinLimits(file)

\* the file exists, has a supported suffix and is within the size limit
Conforming(f, max_size_mb) ==
  /\ f.exists
  /\ Lower(PathSuffix(f.path.name)) \in SUPPORTED_VIDEO_FORMATS
  /\ f.size <= max_size_mb * BYTES_PER_MB

\* C9 as stated: for an existing, supported, size-conforming file that
\* lasts longer than max_duration_seconds, validate_video_file raises the
\* duration-exceeded error and never returns valid.
C9_LongVideoRejected ==
  (/\ VV_Returned
   /\ Conforming(file, call.max_size_mb)
   /\ file.fps > 0
   /\ file.frame_count > call.max_duration_seconds * file.fps)
    => ret = VideoValidationError("Video too long")

\* C9: when the video libraries are available and read the file,
\* validate_video_file raises the duration-exceeded error for an existing,
\* supported, size-conforming file whose reported duration (frames over
\* frame rate, rounded to hundredths) exceeds max_duration_seconds; without
\* the libraries it returns valid with a warning and no duration.
C9_ReportedDurationRejected ==
  (VV_Returned /\ Conforming(file, call.max_size_mb)) =>
    /\ (/\ VIDEO_PROCESSING_AVAILABLE
        /\ file.opens
        /\ DurationCs(file.frame_count, file.fps)
             > 100 * call.max_duration_seconds)
         => ret = VideoValidationError("Video too long")
    /\ ~VIDEO_PROCESSING_AVAILABLE
         => /\ ~IsException(ret)
            /\ ret.valid
            /\ "warning" \in DOMAIN ret
            /\ "duration" \notin DOMAIN ret

\* a 600.04 s video is rejected at the default limit
C9_Witness ==
  /\ VV_Returned
  /\ Conforming(file, call.max_size_mb)
  /\ VIDEO_PROCESSING_AVAILABLE
  /\ call.max_duration_seconds = 600
  /\ file.frame_count = 15001
  /\ ret = VideoValidationError("Video too long")

SvpErrorTypes == {"validation", "processing", "unexpected"}

\* C10: safe_video_processing never raises: it returns a record, which on a
\* validation failure has success false, error type 'validation' and the
\* validation message as user message, after the last failed attempt has
\* error type 'processing', and on another exception 'unexpected'; and
\* get_user_friendly_error gives a non-empty suggestion list for each type.
C10_AlwaysARecord ==
  /\ SVP_Returned =>
       LET v == validate_video_file(file, 100, 600, VIDEO_PROCESSING_AVAILABLE,
                                    video_utils_importable)
       IN /\ ~IsException(ret)
          /\ "success" \in DOMAIN ret
          /\ IsException(v)
               => /\ ~ret.success
                  /\ ret.error_type = "validation"
                  /\ ret.user_message = v.message
          /\ (~IsException(v) /\ ~video_utils_importable)
               => /\ ~ret.success
                  /\ ret.error_type = "unexpected"
          /\ (~IsException(v) /\ video_utils_importable /\ ~ret.success)
               => ret.error_type = "processing"
          /\ ~ret.success
               => /\ ret.error_type \in SvpErrorTypes
                  /\ "user_message" \in DOMAIN ret
                  /\ get_user_friendly_error(ret.error_type, ret.error).suggestions
                       = error_messages[ret.error_type].suggestions
  /\ \A t \in SvpErrorTypes :
       Len(get_user_friendly_error(t, "error_message").suggestions) > 0
  /\ (call.fn = "get_user_friendly_error" /\ pc = "done")
       => /\ Len(ret.suggestions) > 0
          /\ ret.error_type = call.error_type

\* the import failed after a successful validation
C10_Witness ==
  /\ SVP_Returned
  /\ ~ret.success
  /\ ret.error_type = "unexpected"
  /\ Len(get_user_friendly_error(ret.error_type, ret.error).suggestions) > 0

\* transcribe_audio has just returned to analyze_interview
Transcribed == call.fn = "analyze_interview" /\ pc = "ai_speech"

\* C11: with ADVANCED_FEATURES false transcribe_audio returns the fixed demo
\* sentence for every audio path, existing or not, and neither the
\* recognizer nor the conversion to WAV is called.
C11_DemoWithoutBackend ==
  (Transcribed /\ ~ADVANCED_FEATURES) =>
    /\ ai.transcript = DEMO_TRANSCRIPT
    /\ Events("recognize") = {}
    /\ Events("convert") = {}
    /\ WavPath(ai.audio_path) \notin files \ {ai.audio_path}

\* the demo sentence came back for a path that names no file
C11_Witness ==
  /\ Transcribed
  /\ ~ADVANCED_FEATURES
  /\ ~file.exists
  /\ ai.transcript = DEMO_TRANSCRIPT

\* C12 as stated: with a backend, a failed transcription returns the
\* could-not-understand text or the second canned transcript, nothing else.
C12_TwoFailureTexts ==
  (Transcribed /\ ADVANCED_FEATURES /\ TranscriptionFailed) =>
    ai.transcript \in {UNKNOWN_VALUE_TEXT, MOCK_TRANSCRIPT}

\* C12: with a backend, every failure inside transcribe_audio is caught and
\* a text is returned: the could-not-understand text for unintelligible
\* audio, the service-error message for a request error, and the second
\* canned transcript for any other exception.
C12_ThreeFailureTexts ==
  (Transcribed /\ ADVANCED_FEATURES /\ TranscriptionFailed) =>
    /\ ai.transcript \in PlaceholderTexts
    /\ Events("UnknownValueError") # {} => ai.transcript = UNKNOWN_VALUE_TEXT
    /\ Events("RequestError") # {} => ai.transcript = REQUEST_ERROR_TEXT
    /\ Events("Exception") # {} => ai.transcript = MOCK_TRANSCRIPT
    /\ Cardinality({UNKNOWN_VALUE_TEXT, REQUEST_ERROR_TEXT, MOCK_TRANSCRIPT}) = 3

\* a request error came back as the service-error message
C12_Witness ==
  /\ Transcribed
  /\ ADVANCED_FEATURES
  /\ Events("RequestError") # {}
  /\ ai.transcript = REQUEST_ERROR_TEXT

\* C13 as stated: every transcript transcribe_audio returns is lowercase.
C13_AlwaysLowercase ==
  Transcribed => ai.transcript = Lower(ai.transcript)

\* C13: the transcript is lowercase when the backend is unavailable, when
\* recognition succeeds and when an unexpected exception is mapped to the
\* canned transcript; the could-not-understand text and the service-error
\* message are returned as written, with a capital first letter.
C13_LowercaseButMessages ==
  Transcribed =>
    /\ ai.transcript \notin {UNKNOWN_VALUE_TEXT, REQUEST_ERROR_TEXT}
         => ai.transcript = Lower(ai.transcript)
    /\ ai.transcript \in {UNKNOWN_VALUE_TEXT, REQUEST_ERROR_TEXT}
         => /\ ai.transcript # Lower(ai.transcript)
            /\ Tail(ai.transcript) = Tail(Lower(ai.transcript))

\* a recognized text with a capital letter came back in lowercase
C13_Witness ==
  /\ Transcribed
  /\ ADVANCED_FEATURES
  /\ ~TranscriptionFailed
  /\ Heard1 # Lower(Heard1)
  /\ ai.transcript = Lower(Heard1)

\* the step of analyze_interview a statement belongs to: 1 DetectKind,
\* 2 ExtractAudio, 3 Transcribe, 4 Analyze, 5 GenerateFeedback,
\* 6 ComputeOverallScore, 7 Cleanup, 8 Done
StepNumber ==
  CASE pc = "ai_detect" -> 1
    [] pc \in {"pv_mkdtemp", "pv_probe", "pv_extract", "ai_video_result"} -> 2
    [] pc = "ai_transcribe" -> 3
    [] pc \in {"ai_speech", "ai_sentiment", "ai_content"} -> 4
    [] pc = "ai_feedback" -> 5
    [] pc = "ai_compile" -> 6
    [] pc \in {"ai_cleanup", "ai_except"} -> 7
    [] OTHER -> 8

\* the audio has been extracted and the temporary files are not yet due
AudioInUse ==
  /\ call.fn = "analyze_interview"
  /\ pv.result # None
  /\ pv.result.success
  /\ pc \in {"ai_video_result", "ai_transcribe", "ai_speech", "ai_sentiment",
             "ai_content", "ai_feedback", "ai_compile", "ai_cleanup",
             "ai_except"}

C14_StepState ==
  call.fn = "analyze_interview" =>
    /\ StepNumber = 2
         => VIDEO_PROCESSING_AVAILABLE /\ is_video_file(file.path.name)
    /\ AudioInUse
         => /\ pv.result.audio_path \in files
            /\ pv.result.temp_dir \in dirs
    /\ (pc = "ai_transcribe" /\ Events("mkdtemp") # {})
         => /\ ai.audio_path = pv.result.audio_path
            /\ ai.audio_path \in files
    /\ Events("cleanup") # {} => pc = "done"
    /\ \A i \in Events("cleanup") :
         \A j \in Events("recognize") \cup Events("convert")
                  \cup Events("moviepy") : j < i

\* C14: within one analyze_interview call the steps DetectKind, ExtractAudio
\* (video only), Transcribe, Analyze, GenerateFeedback, ComputeOverallScore,
\* Cleanup, Done are passed in that order, each at most once and never back
\* to an earlier one, and the extracted audio file stays on disk from its
\* extraction until the cleanup step, so throughout its transcription.
C14_LinearSteps ==
  /\ []C14_StepState
  /\ [][call.fn = "analyze_interview"
          => /\ StepNumber' >= StepNumber
             /\ StepNumber' = StepNumber => StepsLeft' < StepsLeft]_vars

\* the extracted audio has been transcribed and is still on disk
C14_Witness ==
  /\ Transcribed
  /\ Events("mkdtemp") # {}
  /\ ai.temp_dir \in dirs
  /\ ai.audio_path = ExtractedAudioPath(file, ai.temp_dir)
  /\ ai.audio_path \in files

\* analyze_interview returned a compiled report, not the fallback
Compiled == AI_Returned /\ "video_metadata" \in DOMAIN ret

\* C15 as stated: the report says 'video' exactly when the input path has a
\* supported video extension, and 'audio' exactly when it has not.
C15_KindByExtension ==
  Compiled =>
    (ret.video_metadata.file_type = "video" <=> is_video_file(file.path.name))

\* C15: a compiled report says file_type 'video' with audio_extracted true
\* and the format, duration, resolution and fps read from the file exactly
\* when the input path has a supported video extension and the video
\* libraries are available; otherwise, a video path without the libraries
\* included, it says file_type 'audio' with audio_extracted false and
\* nothing else.
C15_KindByExtensionAndLibraries ==
  Compiled =>
    LET m == ret.video_metadata
        info == get_video_info(file, VIDEO_PROCESSING_AVAILABLE)
    IN /\ m.file_type \in {"video", "audio"}
       /\ m.file_type = "video"
            <=> (VIDEO_PROCESSING_AVAILABLE /\ is_video_file(file.path.name))
       /\ m.file_type = "video"
            => /\ m.audio_extracted
               /\ m.original_format = Lower(PathSuffix(file.path.name))
               /\ m.duration = info.duration
               /\ m.resolution = info.resolution
               /\ m.fps = info.fps
       /\ m.file_type = "audio"
            => /\ ~m.audio_extracted
               /\ DOMAIN m = {"file_type", "audio_extracted"}

\* the report of clip.MP4 says video, format .mp4
C15_Witness ==
  /\ Compiled
  /\ file.path.name = VIDEO_UPPER
  /\ ret.video_metadata.file_type = "video"
  /\ ret.video_metadata.audio_extracted
  /\ ret.video_metadata.original_format = <<".", "m", "p", "4">>

\* C18: is_video_file(path) is true exactly when the extension the path's
\* name ends with, compared without regard to case, is one of mp4, avi, mov,
\* mkv, webm, flv, wmv, m4v; a name without a dot, one that is only a dot
\* and letters, and one that ends with a dot have no extension.  So clip.MP4
\* is a video and voice.wav, test.mp3 and notes.txt are not.
C18_VideoByExtension ==
  (call.fn = "is_video_file" /\ pc = "done") =>
    (ret <=> Lower(call.file_path.extension) \in VideoExtensions)

\* clip.MP4 is a video
C18_Witness ==
  /\ call.fn = "is_video_file"
  /\ pc = "done"
  /\ call.file_path.name = <<"c","l","i","p",".","M","P","4">>
  /\ ret = TRUE

SpeechReturned == call.fn = "analyze_speech_patterns" /\ pc = "done"

\* C19: for every transcript, the empty one and those without a word
\* included, analyze_speech_patterns returns its record and raises nothing,
\* with confidence_score and hesitation_rate in 0..100 and clarity_score in
\* 50..100; without words the hesitation rate is 0.
C19_MetricsInRange ==
  SpeechReturned =>
    /\ ~IsException(ret)
    /\ ret.confidence_score \in 0..100
    /\ ret.hesitation_rate \in 0..100
    /\ ret.clarity_score \in 50..100
    /\ ret.total_words >= 0
    /\ ret.total_words = 0 => ret.hesitation_rate = 0

\* the empty transcript: no words, hesitation 0, confidence 80, clarity 70
C19_Witness ==
  /\ SpeechReturned
  /\ call.text = <<>>
  /\ ret.total_words = 0
  /\ ret.hesitation_rate = 0
  /\ ret.confidence_score = 80
  /\ ret.clarity_score = 70

\* the phrase hits and, over the denominator Words, the hesitation rate of
\* the transcript of the call
ConfidentHits == CountAll(call.text, confident_phrases)
UncertainHits == CountAll(call.text, uncertain_phrases)
Words == IF ret.total_words > 0 THEN ret.total_words ELSE 1
HesitationN == Min(100 * Words, 100 * ret.filler_word_count)
AdjustmentN == (5 * ConfidentHits - 3 * UncertainHits) * Words

\* clamp(0, 100, x), over the denominator Words
ClampN(x) == Min(100 * Words, Max(0, x))

\* C20 as stated: confidence_score is clamp(0, 100, (80 - hesitation_rate)
\* + 5 * confident hits - 3 * uncertain hits), give or take the rounding to
\* an integer.
C20_ClampOfSum ==
  SpeechReturned =>
    LET spec == ClampN(80 * Words - HesitationN + AdjustmentN)
    IN /\ Words * (ret.confidence_score - 1) <= spec
       /\ spec <= Words * (ret.confidence_score + 1)

\* C20: confidence_score is clamp(0, 100, max(0, 80 - hesitation_rate)
\* + 5 * confident hits - 3 * uncertain hits) cut to an integer, the
\* hesitation rate being the unrounded percentage of filler hits per word,
\* at most 100: a hesitation rate above 80 counts as 80.  When the value is
\* whole the double may fall just short and the score is then one less.
C20_ClampOfFlooredBase ==
  SpeechReturned =>
    LET value == ClampN(Max(0, 80 * Words - HesitationN) + AdjustmentN)
    IN /\ value % Words # 0 => ret.confidence_score = value \div Words
       /\ value % Words = 0
            => ret.confidence_score \in {value \div Words, (value \div Words) - 1}

\* 'certainly' alone: hesitation 100, one confident hit, confidence 5
C20_Witness ==
  /\ SpeechReturned
  /\ call.text = Spell["certainly"]
  /\ ret.hesitation_rate = 100
  /\ ConfidentHits = 1
  /\ UncertainHits = 0
  /\ ret.confidence_score = 5



\* the entry points that run the video pipeline on the request's file
PipelineCalls ==
  {"analyze_interview", "safe_video_processing", "process_video_then_cleanup"}

\* the files on disk other than the source
Written == files \ {file.path}

\* the source is not in a directory the caller passed as temp_dir
SourceOutsideTempDir ==
  GivenTempDir(call) = 0 \/ file.path.dir # GivenTempDir(call)

\* at most one file is written, the extracted WAV in the temporary
\* directory, which is not the source's path
OneFileWritten ==
  /\ Cardinality(Written) <= 1
  /\ pv.temp_dir # 0
       => /\ Written \subseteq {ExtractedAudioPath(file, pv.temp_dir)}
          /\ ExtractedAudioPath(file, pv.temp_dir) # file.path
  /\ (pv.result # None /\ pv.result.success /\ Events("cleanup") = {})
       => Written = {pv.result.audio_path}

Acts(r) == pc'[r] # pc[r]

\* the requests that have passed the making of the temporary directory
PastMkDtemp == {r \in Requests : pc[r] \notin {"ai_detect", "pv_mkdtemp"}}

\* what a request reads stays on disk and what it made stays its own
NothingTakenAway ==
  \A r \in Requests :
    /\ ai[r].reading \subseteq files
    /\ ai[r].made_dirs \subseteq dirs
    /\ ai[r].made_files \subseteq files

\* every request has made a temporary directory that no other request made
OwnTempDirs ==
  /\ \A r \in PastMkDtemp : pv[r].temp_dir # 0
  /\ \A r, q \in Requests :
       r # q => ai[r].made_dirs \cap ai[q].made_dirs = {}

\* no file was written by two requests
OwnFiles ==
  \A r, q \in Requests : r # q => ai[r].made_files \cap ai[q].made_files = {}

\* a step removes only what the request taking it made, and nothing that
\* another request made or is reading
RemovesOwnOnly ==
  \A r \in Requests :
    Acts(r) =>
      /\ (dirs \ dirs') \subseteq ai[r].made_dirs
      /\ (files \ files') \subseteq ai[r].made_files
      /\ \A q \in Requests \ {r} :
           /\ (dirs \ dirs') \cap ai[q].made_dirs = {}
           /\ (files \ files')
                \cap (ai[q].made_files \cup ai[q].reading) = {}

\* C16 as stated: whatever the environment, each request on a video input
\* makes its own temporary directory, no two requests write the same file,
\* and no step removes what another request made or is reading.
C16_NoSharedState ==
  /\ [](NothingTakenAway /\ OwnTempDirs /\ OwnFiles)
  /\ [][RemovesOwnOnly]_vars

\* C16: under every interleaving no step of a request removes a directory
\* or file that another request made or is reading.  With the video
\* libraries available each request on a video input makes its own
\* temporary directory, distinct from every other live request's, and no
\* two requests write the same file.  Without them no request makes a
\* directory or removes anything, and each request with the speech backend
\* writes the converted WAV next to its source, the same file for requests
\* on the same video.
C16_OwnTempDirWithLibraries ==
  /\ [](/\ NothingTakenAway
        /\ VIDEO_PROCESSING_AVAILABLE => OwnTempDirs /\ OwnFiles
        /\ ~VIDEO_PROCESSING_AVAILABLE
             => /\ dirs = {}
                /\ \A r \in Requests :
                     /\ pv[r].temp_dir = 0
                     /\ ai[r].made_files \subseteq {WavPath(file[r].path)})
  /\ [][RemovesOwnOnly /\ (~VIDEO_PROCESSING_AVAILABLE => files \subseteq files')]_vars

\* one request has returned and removed its directory while another, which
\* made a different directory, is reading the audio it extracted there
C16_Witness ==
  \E r, q \in Requests :
    /\ r # q
    /\ pc[r] = "done"
    /\ ret[r] = "analysis"
    /\ pv[r].temp_dir # 0
    /\ pv[r].temp_dir \notin dirs
    /\ pc[q] = "ai_recognize"
    /\ pv[q].temp_dir \in dirs
    /\ ai[q].reading = {ExtractedAudioPath(file[q], pv[q].temp_dir)}
    /\ ai[q].reading \subseteq files

\* analyze_sentiment_emotions has returned its record
SentimentReturned ==
  /\ call.fn = "analyze_sentiment_emotions"
  /\ pc = "done"
  /\ "emotion_breakdown" \in DOMAIN ret

EmotionNames == {EMOTIONS[i] : i \in 1..Len(EMOTIONS)}

\* the occurrences of the keywords of emotion e in the lowered text
EmotionHits(text, e) ==
  SumSeq([i \in 1..Len(emotion_keywords[e]) |->
            Count(Lower(text), emotion_keywords[e][i])])

AllEmotionHits(text) ==
  SumSeq([i \in 1..Len(EMOTIONS) |-> EmotionHits(text, EMOTIONS[i])])

BreakdownSum ==
  SumSeq([i \in 1..Len(EMOTIONS) |-> ret.emotion_breakdown[EMOTIONS[i]]])

\* the call returns the record unless the polarity library raised, and the
\* breakdown is over the five emotions, each an integer percentage
FiveEmotions ==
  /\ (call.fn = "analyze_sentiment_emotions" /\ pc = "done"
        /\ call.blob.kind # "raise")
       => "emotion_breakdown" \in DOMAIN ret
  /\ SentimentReturned
       => /\ DOMAIN ret.emotion_breakdown = EmotionNames
          /\ \A e \in EmotionNames : ret.emotion_breakdown[e] \in 0..100

\* C21 as stated: for every transcript the breakdown is over the five
\* emotions and its percentages sum to at most 100 and to more than 95,
\* each of the five being short by less than one.
C21_SumsToAboutHundred ==
  /\ FiveEmotions
  /\ SentimentReturned => BreakdownSum \in 96..100

\* C21: the breakdown is over exactly the five fixed emotions and no
\* transcript makes the call divide by zero.  When the transcript holds at
\* least one emotion keyword the integer percentages sum to at most 100
\* and, each being truncated, to at least 96; when it holds none, every
\* percentage is 0 and so is the sum.
C21_SumsToHundredOrZero ==
  /\ FiveEmotions
  /\ SentimentReturned
       => IF AllEmotionHits(call.text) > 0
          THEN BreakdownSum \in 96..100
          ELSE \A e \in EmotionNames : ret.emotion_breakdown[e] = 0

\* three emotions with one keyword each: 33, 33 and 33
C21_Witness ==
  /\ SentimentReturned
  /\ AllEmotionHits(call.text) = 3
  /\ BreakdownSum = 99

\* the place of an emotion in the fixed order
EmotionIndex(e) == CHOOSE i \in 1..Len(EMOTIONS) : EMOTIONS[i] = e

\* C22: dominant_emotion has the largest percentage of the breakdown, and
\* every emotion before it in the order enthusiasm, confidence,
\* nervousness, professionalism, curiosity has a smaller one.
C22_FirstOfLargest ==
  SentimentReturned
    => /\ ret.dominant_emotion \in EmotionNames
       /\ \A e \in EmotionNames :
            /\ ret.emotion_breakdown[e]
                 <= ret.emotion_breakdown[ret.dominant_emotion]
            /\ EmotionIndex(e) < EmotionIndex(ret.dominant_emotion)
                 => ret.emotion_breakdown[e]
                      < ret.emotion_breakdown[ret.dominant_emotion]

\* confidence and nervousness tie at 50 and the first of them is reported
C22_Witness ==
  /\ SentimentReturned
  /\ ret.emotion_breakdown["confidence"] = 50
  /\ ret.emotion_breakdown["nervousness"] = 50
  /\ ret.dominant_emotion = "confidence"

\* the number of the keywords that occur in the lowered text
DistinctHits(text, keywords) ==
  Cardinality({i \in 1..Len(keywords) : Contains(Lower(text), keywords[i])})

\* without the polarity library: polarity is (pos - neg)/(pos + neg), 0.1
\* without hits, the record reports it rounded to hundredths, and the
\* sentiment follows the thresholds on the fraction
KeywordPolarity ==
  (SentimentReturned /\ ~call.advanced)
    => LET pos == DistinctHits(call.text, positive_words)
           neg == DistinctHits(call.text, negative_words)
       IN IF pos + neg = 0
          THEN ret.polarity = 10 /\ ret.overall_sentiment = "Neutral"
          ELSE /\ (ret.polarity * (pos + neg) - 100 * (pos - neg)) * 2
                    \in (0 - (pos + neg))..(pos + neg)
               /\ ret.overall_sentiment =
                    IF 10 * (pos - neg) > 3 * (pos + neg) THEN "Positive"
                    ELSE IF 10 * (pos - neg) < (0 - 3) * (pos + neg)
                    THEN "Negative"
                    ELSE "Neutral"

\* C23 as stated: the sentiment is Positive exactly when the polarity the
\* record reports is above 0.3, Negative exactly when it is below -0.3 and
\* Neutral otherwise, the keyword polarity being (pos - neg)/(pos + neg) or
\* 0.1.
C23_SentimentOfReportedPolarity ==
  /\ KeywordPolarity
  /\ SentimentReturned
       => ret.overall_sentiment =
            IF ret.polarity > 30 THEN "Positive"
            ELSE IF ret.polarity < -30 THEN "Negative"
            ELSE "Neutral"

\* C23: the sentiment is Positive exactly when the polarity as computed is
\* above 0.3, Negative exactly when it is below -0.3 and Neutral otherwise,
\* the keyword polarity being (pos - neg)/(pos + neg) or 0.1.  The record
\* reports the polarity rounded to two decimals, so a Positive record
\* reports 0.3 or more, a Negative one -0.3 or less and a Neutral one a
\* value from -0.3 to 0.3: a library polarity of 0.304 is Positive and is
\* reported as 0.3.
C23_SentimentOfComputedPolarity ==
  /\ KeywordPolarity
  /\ (SentimentReturned /\ call.advanced)
       => /\ ret.overall_sentiment =
               IF call.blob.polarity > 300 THEN "Positive"
               ELSE IF call.blob.polarity < -300 THEN "Negative"
               ELSE "Neutral"
          /\ 10 * ret.polarity - call.blob.polarity \in -5..5
  /\ SentimentReturned
       => CASE ret.overall_sentiment = "Positive" -> ret.polarity >= 30
            [] ret.overall_sentiment = "Negative" -> ret.polarity <= -30
            [] OTHER -> ret.polarity \in -30..30

\* two positive words and a negative one: polarity 1/3, reported as 0.33,
\* Positive
C23_Witness ==
  /\ SentimentReturned
  /\ ~call.advanced
  /\ DistinctHits(call.text, positive_words) = 2
  /\ DistinctHits(call.text, negative_words) = 1
  /\ ret.polarity = 33
  /\ ret.overall_sentiment = "Positive"

ContentReturned == call.fn = "analyze_content_quality" /\ pc = "done"

\* min(cap, weight * n)
Capped(cap, weight, n) == IF weight * n > cap THEN cap ELSE weight * n

\* C24: technical_score is min(40, 8 * the technical skills found),
\* soft_skills_score min(30, 6 * the soft skills found), experience_score
\* min(30, 3 * the experience words found), a skill or word being found
\* when it occurs anywhere in the lowered transcript, and
\* content_quality_score is their sum, from 0 to 100.
C24_CappedSum ==
  ContentReturned
    => LET technical == DistinctHits(call.text, technical_skills)
           soft == DistinctHits(call.text, soft_skills)
           experience == DistinctHits(call.text, experience_indicators)
           breakdown == ret.detailed_breakdown
       IN /\ breakdown.technical_score = Capped(40, 8, technical)
          /\ breakdown.soft_skills_score = Capped(30, 6, soft)
          /\ breakdown.experience_score = Capped(30, 3, experience)
          /\ ret.content_quality_score
               = breakdown.technical_score + breakdown.soft_skills_score
                 + breakdown.experience_score
          /\ ret.content_quality_score \in 0..100
          /\ Len(ret.technical_skills_mentioned) = technical
          /\ Len(ret.soft_skills_mentioned) = soft
          /\ ret.experience_indicators = experience

\* six technical skills are found, 'ai' inside 'maintained' among them, and
\* the technical score stops at 40
C24_Witness ==
  /\ ContentReturned
  /\ DistinctHits(call.text, technical_skills) = 6
  /\ ret.detailed_breakdown.technical_score = 40
  /\ ret.detailed_breakdown.experience_score = 3
  /\ ret.content_quality_score = 43

\* the canned sentences in source order, each with whether its rule holds
\* for the arguments of the call
FeedbackRules ==
  LET sp == call.speech_analysis
      se == call.sentiment_analysis
      co == call.content_analysis
  IN << [holds |-> sp.confidence_score < 60,
         sentence |-> "Practice speaking with more conviction. Use definitive statements like 'I can' instead of 'I think I can'."],
        [holds |-> sp.confidence_score > 85,
         sentence |-> "Great confidence level! You come across as self-assured and capable."],
        [holds |-> sp.hesitation_rate > 20,
         sentence |-> "Try to reduce filler words (um, ah, like). Practice speaking more deliberately and pause instead of using fillers."],
        [holds |-> sp.hesitation_rate < 5,
         sentence |-> "Excellent fluency! You speak clearly without unnecessary hesitation."],
        [holds |-> sp.clarity_score < 70,
         sentence |-> "Work on structuring your sentences better. Aim for 10-20 words per sentence for optimal clarity."],
        [holds |-> se.dominant_emotion = "nervousness",
         sentence |-> "Try relaxation techniques before interviews to manage nerves. Deep breathing can help you sound more composed."],
        [holds |-> se.dominant_emotion = "enthusiasm",
         sentence |-> "Your enthusiasm comes through clearly! This positive energy is a great asset."],
        [holds |-> co.content_quality_score < 50,
         sentence |-> "Include more specific examples of your technical skills and work experience."],
        [holds |-> Len(co.technical_skills_mentioned) < 2,
         sentence |-> "Mention more relevant technical skills that match the job requirements."],
        [holds |-> Len(co.soft_skills_mentioned) < 2,
         sentence |-> "Highlight soft skills like teamwork, leadership, or problem-solving with specific examples."],
        [holds |-> se.overall_sentiment = "Positive",
         sentence |-> "Maintain this positive attitude - it shows genuine interest in the role."] >>

\* the sentences of the rules that hold, in the order of the rules
ExpectedFeedback ==
  LET fired == SelectSeq(FeedbackRules, LAMBDA rule : rule.holds)
  IN [i \in 1..Len(fired) |-> fired[i].sentence]

\* C25: the list generate_feedback returns is the fixed sequence of canned
\* sentences restricted to the rules whose threshold holds, in source
\* order, no sentence left out or repeated, and a second call with the same
\* arguments returns the same list.
C25_RuleOrderedFeedback ==
  call.fn = "generate_feedback"
    => /\ pc \in {"gf_again", "done"}
            => /\ ret = ExpectedFeedback
               /\ \A i, j \in 1..Len(ret) : ret[i] = ret[j] => i = j
       /\ pc = "done" => ai.feedback = ret

\* both calls returned eight sentences, the first and the last rule among
\* them
C25_Witness ==
  /\ call.fn = "generate_feedback"
  /\ pc = "done"
  /\ Len(ret) = 8
  /\ ai.feedback = ret
  /\ call.speech_analysis.confidence_score = 59
  /\ call.sentiment_analysis.overall_sentiment = "Positive"
  /\ ret[1] = FeedbackRules[1].sentence
  /\ ret[8] = FeedbackRules[11].sentence

\* C26: in every report analyze_interview returns, compiled or fallback,
\* the recommendations are the first min(3, number of feedback sentences)
\* sentences of the report's feedback, in the same order.
C26_TopThreeRecommendations ==
  AI_Returned
    => LET feedback == ret.feedback
           recommendations == ret.performance_summary.recommendations
           n == IF Len(feedback) < 3 THEN Len(feedback) ELSE 3
       IN /\ Len(recommendations) = n
          /\ \A i \in 1..n : recommendations[i] = feedback[i]

\* a compiled report with more than three feedback sentences and three
\* recommendations
C26_Witness ==
  /\ Compiled
  /\ Len(ret.feedback) > 3
  /\ Len(ret.performance_summary.recommendations) = 3
  /\ ret.performance_summary.recommendations[3] = ret.feedback[3]

\* C27: in every report analyze_interview returns, the fallback report
\* included, overall_score is the weighted combination, as the success path
\* computes it, of the confidence_score, clarity_score, hesitation_rate and
\* content_quality_score of that same report.
C27_ScoreOfOwnMetrics ==
  AI_Returned
    => ret.overall_score
         = OverallScore(ret.speech_analysis.confidence_score,
                        ret.speech_analysis.clarity_score,
                        ret.speech_analysis.hesitation_rate,
                        ret.content_analysis.content_quality_score)

\* C28: when process_video_for_interview_analysis reports a failure, the
\* directory it made is gone or named in what it returns, and when
\* safe_video_processing has returned, the only temporary directory left
\* is the one a successful result names.
C28_NoDirectoryLeftByFailure ==
  /\ (call.fn = "safe_video_processing" /\ pc = "svp_result"
        /\ ~IsException(pv.result) /\ ~pv.result.success)
       => \/ pv.temp_dir \notin dirs
          \/ "temp_dir" \in DOMAIN pv.result
  /\ SVP_Returned
       => dirs \subseteq (IF ret.success THEN {ret.result.temp_dir} ELSE {})

\* C29: in a compiled report the enthusiasm sentence is in the feedback
\* only if the transcript holds an enthusiasm keyword, and the nervousness
\* sentence only if it holds a nervousness keyword.
C29_EmotionFeedbackGrounded ==
  Compiled
    => /\ (\E i \in DOMAIN ret.feedback :
             ret.feedback[i] = "Your enthusiasm comes through clearly! This positive energy is a great asset.")
            => EmotionHits(ret.transcript, "enthusiasm") > 0
       /\ (\E i \in DOMAIN ret.feedback :
             ret.feedback[i] = "Try relaxation techniques before interviews to manage nerves. Deep breathing can help you sound more composed.")
            => EmotionHits(ret.transcript, "nervousness") > 0

=============================================================================
